---- MODULE Spec2Model ----
(***************************************************************************)
(* Model of the bet-tracker backend: the bet slip parser                   *)
(* (backend/shared/betslip_parser.py), the bet validator and odds math     *)
(* (backend/shared/bet_validator.py and its packaged copy), and the        *)
(* create-bet / update-bet request handlers over the bets table.           *)
(*                                                                         *)
(* JSON / Python values are encoded uniformly as records [k, n, s]:        *)
(*   k = "absent"  the key is not in the dict                              *)
(*   k = "null"    None                                                    *)
(*   k = "num"     a number; n is the value in hundredths (fixed point)    *)
(*   k = "str"     a string s                                              *)
(*   k = "bool"    True or False; n is 1 or 0                              *)
(*   k = "list", k = "obj"   a container where a scalar was expected;      *)
(*                 n is its length                                         *)
(***************************************************************************)
EXTENDS Integers, Sequences, FiniteSets, TLC

VARIABLES
    model_output,   \* parser: the text handed to parse_bets_from_model_output
    parsed,         \* parser: what the call produced (return value or raise)
    raw,            \* normaliser: the raw parlay entry being normalised;
                    \* odds: the odds handed to american_to_decimal_odds;
                    \* bet store: the bet the last update request found
    normalized,     \* normaliser: the outcome of _normalize_parlay_bet;
                    \* odds: the outcome of american_to_decimal_odds
    data,           \* validator: the bet handed to validate_bet;
                    \* odds: the odds handed to decimal_to_american_odds;
                    \* bet store: the body of the last request on a bet
    verdict,        \* validator: the (is_valid, error_message) it returned;
                    \* odds: the outcome of decimal_to_american_odds
    table,          \* bet store: the items of the bets table
    profiles,       \* bet store: the users table, user id -> profile
    response        \* bet store: the last HTTP response of a handler

vars ==
    <<model_output, parsed, raw, normalized, data, verdict, table, profiles,
      response>>

-----------------------------------------------------------------------------
(* Bounds of the model *)

\* longest 'legs' array handed to the normaliser and the validator
MaxLegs == 3
\* number of bets the table holds
MaxStored == 1
\* the max_bets argument of parse_bets_from_model_output (default 20)
max_bets == 2
\* the max_legs_per_parlay argument of parse_bets_from_model_output (default 20)
max_legs_per_parlay == 2

\* numbers are carried in hundredths: round(x, 2) keeps two decimals
Hundred == 100
\* decimal odds are carried with four decimals
DecScale == Hundred * Hundred

-----------------------------------------------------------------------------
(* Python values *)

Absent == [k |-> "absent", n |-> 0, s |-> ""]
Null == [k |-> "null", n |-> 0, s |-> ""]
Num(x) == [k |-> "num", n |-> x, s |-> ""]
Str(x) == [k |-> "str", n |-> 0, s |-> x]
ListVal(len) == [k |-> "list", n |-> len, s |-> ""]
\* True and False, kept apart from the numbers: they appear only where the
\* code builds them with bool()
Bool(b) == [k |-> "bool", n |-> IF b THEN 1 ELSE 0, s |-> ""]
\* str(uuid.uuid4()): a fresh string, distinguished by a serial number
Uuid(i) == [k |-> "str", n |-> i, s |-> "uuid4"]

\* d.get(key): an absent key reads as None
Get(v) == IF v.k = "absent" THEN Null ELSE v
\* d.get(key, default)
GetDefault(v, default) == IF v.k = "absent" THEN default ELSE v
\* key in d
Has(v) == v.k # "absent"
\* bool(v)
Truthy(v) ==
    CASE v.k \in {"absent", "null"} -> FALSE
      [] v.k \in {"num", "bool", "list", "obj"} -> v.n # 0
      [] v.k = "str" -> v.s # ""
\* a or b
Or(a, b) == IF Truthy(a) THEN a ELSE b
\* isinstance(v, (int, float))
IsNumber(v) == v.k = "num"
\* v == 0
IsZero(v) == IsNumber(v) /\ v.n = 0
\* a == b on scalars: numbers compare by value, anything else structurally
PyEq(a, b) == IF IsNumber(a) /\ IsNumber(b) THEN a.n = b.n ELSE Get(a) = Get(b)
\* s.strip() of the strings the model uses
Strip(s) == IF s \in {"", " "} THEN "" ELSE s
\* isinstance(v, str) and v.strip()
NonEmptyString(v) == v.k = "str" /\ Strip(v.s) # ""

Abs(x) == IF x < 0 THEN -x ELSE x
\* x / y rounded to the nearest integer (y > 0, x >= 0)
DivRound(x, y) == (2 * x + y) \div (2 * y)

-----------------------------------------------------------------------------
(* Odds math (bet_validator.py).  A result is [exc, v]: exc = "" and the    *)
(* value v, or the name of the exception raised.                            *)

Ok(v) == [exc |-> "", v |-> v]
Raise(e) == [exc |-> e, v |-> 0]

\* american_to_decimal_odds: American odds in hundredths -> decimal odds
\* scaled by DecScale.  A non-number fails the comparison odds > 0.
american_to_decimal_odds(odds) ==
    IF ~IsNumber(odds) THEN Raise("TypeError")
    ELSE IF odds.n = 0 THEN Raise("ValueError")
    ELSE IF odds.n > 0
         THEN Ok(DivRound(odds.n * DecScale, Hundred * Hundred) + DecScale)
         ELSE Ok(DivRound(Hundred * Hundred * DecScale, Abs(odds.n)) + DecScale)

\* decimal_to_american_odds without the branch for decimal odds below 2.0
decimal_to_american_odds_Positive(decimal_odds) ==
    IF decimal_odds <= DecScale THEN Raise("ValueError")
    ELSE Ok(DivRound((decimal_odds - DecScale) * Hundred * Hundred, DecScale))

\* decimal_to_american_odds: decimal odds scaled by DecScale -> American odds
\* in hundredths
decimal_to_american_odds(decimal_odds) ==
    IF decimal_odds <= DecScale THEN Raise("ValueError")
    ELSE IF decimal_odds >= 2 * DecScale
         THEN Ok(DivRound((decimal_odds - DecScale) * Hundred * Hundred, DecScale))
         ELSE Ok(-DivRound(Hundred * Hundred * DecScale, decimal_odds - DecScale))

\* x ** n in fixed point
RECURSIVE PowFix(_, _)
PowFix(x, n) == IF n <= 1 THEN x ELSE (PowFix(x, n - 1) * x) \div DecScale

\* the largest r in lo..hi with r ** n <= d (bisection; PowFix(lo, n) <= d)
RECURSIVE RootSearch(_, _, _, _)
RootSearch(lo, hi, d, n) ==
    IF lo >= hi THEN lo
    ELSE LET mid == (lo + hi + 1) \div 2
         IN IF PowFix(mid, n) <= d THEN RootSearch(mid, hi, d, n)
            ELSE RootSearch(lo, mid - 1, d, n)

\* combined_decimal ** (1.0 / num_legs)
NthRoot(d, n) == IF d <= DecScale THEN d ELSE RootSearch(DecScale, d, d, n)

\* reverse_calculate_equal_odds without the nth root of line 78
reverse_calculate_equal_odds_NoRoot(combined_odds, num_legs) ==
    IF IsZero(combined_odds) THEN Raise("ValueError")
    ELSE IF num_legs < 2 THEN Raise("ValueError")
    ELSE LET combined_decimal == american_to_decimal_odds(combined_odds)
         IN IF combined_decimal.exc # "" THEN combined_decimal
            ELSE decimal_to_american_odds(combined_decimal.v)

\* reverse_calculate_equal_odds(combined_odds, num_legs), rounded to 2 places
reverse_calculate_equal_odds(combined_odds, num_legs) ==
    IF IsZero(combined_odds) THEN Raise("ValueError")
    ELSE IF num_legs < 2 THEN Raise("ValueError")
    ELSE LET combined_decimal == american_to_decimal_odds(combined_odds)
         IN IF combined_decimal.exc # "" THEN combined_decimal
            ELSE decimal_to_american_odds(NthRoot(combined_decimal.v, num_legs))

-----------------------------------------------------------------------------
(* Dates.  datetime.strptime(text, "%Y-%m-%d") first matches the text       *)
(* against the format (DateFields gives the matched year, month, day of    *)
(* the texts the model uses, <<>> when the format does not match) and then *)
(* builds the date, which fails for a day the calendar does not have.      *)

\* "%02d" % n
TwoDigits(n) ==
    <<"0", "1", "2", "3">>[(n \div 10) + 1]
        \o <<"0", "1", "2", "3", "4", "5", "6", "7", "8", "9">>[(n % 10) + 1]

\* date(2025, 1, day).strftime("%Y-%m-%d")
Strftime(day) == "2025-01-" \o TwoDigits(day)

\* the days of January 2025 the model writes dates of
JanuaryDays == 6..26

DateFields(text) ==
    CASE text = "2025-01-15" -> <<2025, 1, 15>>
      [] text = "2025-1-15" -> <<2025, 1, 15>>
      [] \E day \in JanuaryDays \ {15, 16} : text = Strftime(day) ->
            <<2025, 1, CHOOSE day \in JanuaryDays : text = Strftime(day)>>
      [] text = "2025-01-16" -> <<2025, 1, 16>>
      [] text = "2024-02-29" -> <<2024, 2, 29>>
      [] text = "2025-02-29" -> <<2025, 2, 29>>
      [] text = "2025-13-01" -> <<2025, 13, 1>>
      [] OTHER -> <<>>

IsLeap(y) == (y % 4 = 0 /\ y % 100 # 0) \/ y % 400 = 0

DaysInMonth(y, m) ==
    IF m = 2 THEN (IF IsLeap(y) THEN 29 ELSE 28)
    ELSE IF m \in {4, 6, 9, 11} THEN 30 ELSE 31

\* the exception datetime.strptime(value, "%Y-%m-%d") raises, "" for none
Strptime(value) ==
    IF value.k # "str" THEN "TypeError"
    ELSE LET f == DateFields(value.s)
         IN IF f = <<>> THEN "ValueError"
            ELSE IF f[2] \in 1..12 /\ f[3] \in 1..DaysInMonth(f[1], f[2])
                 THEN "" ELSE "ValueError"

-----------------------------------------------------------------------------
(* Bet and leg dictionaries.  A dict is a record of values, an absent key  *)
(* holding Absent.  shape tells what the JSON value is when it is not an   *)
(* object.  The value of 'legs' carries its items when it is a list.       *)

LegKeys == {"id", "sport", "teams", "betType", "selection", "odds",
            "attributedTo", "status", "combinedOdds", "sameGameParlayOdds"}

EmptyLeg ==
    [shape |-> "dict", id |-> Absent, sport |-> Absent, teams |-> Absent,
     betType |-> Absent, selection |-> Absent, odds |-> Absent,
     attributedTo |-> Absent, status |-> Absent, combinedOdds |-> Absent,
     sameGameParlayOdds |-> Absent]

\* an element of 'legs' that is not an object
NonDictLeg(shape) == [EmptyLeg EXCEPT !.shape = shape]

LegsList(items) == [k |-> "list", n |-> Len(items), s |-> "", items |-> items]
LegsValue(v) == [k |-> v.k, n |-> v.n, s |-> v.s, items |-> <<>>]

EmptyBet ==
    [shape |-> "dict", type |-> Absent, amount |-> Absent, date |-> Absent,
     sport |-> Absent, teams |-> Absent, betType |-> Absent,
     selection |-> Absent, odds |-> Absent, status |-> Absent,
     attributedTo |-> Absent, legs |-> LegsValue(Absent),
     combinedOdds |-> Absent, sameGameParlayOdds |-> Absent,
     parlayOdds |-> Absent, _validationError |-> ""]

\* an element of 'bets' that is not an object
NonDictBet(shape) == [EmptyBet EXCEPT !.shape = shape]

Min(S) == CHOOSE x \in S : \A y \in S : x <= y

-----------------------------------------------------------------------------
(* Bet validator (bet_validator.py).  A verdict is the returned pair        *)
(* (is_valid, error_message): the message is carried as its fixed text,    *)
(* the field it names and the 1-based leg it names; exc names the          *)
(* exception when the call raises instead of returning.                    *)

Valid == [ok |-> TRUE, error |-> "", field |-> "", leg |-> 0, exc |-> ""]
Invalid(msg) == [ok |-> FALSE, error |-> msg, field |-> "", leg |-> 0, exc |-> ""]
Missing(f) ==
    [ok |-> FALSE, error |-> "Missing required field", field |-> f, leg |-> 0,
     exc |-> ""]
Raises(e) == [ok |-> FALSE, error |-> "", field |-> "", leg |-> 0, exc |-> e]

\* the first of the fields, in order, that is not a key of the dict
FirstMissing(d, fields) ==
    LET absent == {i \in 1..Len(fields) : ~Has(d[fields[i]])}
    IN IF absent = {} THEN "" ELSE fields[Min(absent)]

validate_bet_leg(leg) ==
    LET required_fields == <<"sport", "teams", "betType", "selection", "odds">>
        missing == FirstMissing(leg, required_fields)
    IN IF leg.shape \in {"num", "null"} THEN Raises("TypeError")
       ELSE IF leg.shape # "dict" THEN Missing(required_fields[1])
       ELSE IF missing # "" THEN Missing(missing)
       ELSE IF ~IsNumber(leg.odds) THEN Invalid("Odds must be a number")
       ELSE IF ~NonEmptyString(leg.sport)
            THEN Invalid("Sport must be a non-empty string")
       ELSE IF ~NonEmptyString(leg.teams)
            THEN Invalid("Teams must be a non-empty string")
       ELSE IF ~NonEmptyString(leg.selection)
            THEN Invalid("Selection must be a non-empty string")
       ELSE Valid

validate_single_bet(d) ==
    LET required_fields == <<"type", "amount", "date", "sport", "teams",
                             "betType", "selection", "odds">>
        missing == FirstMissing(d, required_fields)
        parse == Strptime(d.date)
    IN IF Get(d.type) # Str("single") THEN Invalid("Type must be 'single'")
       ELSE IF missing # "" THEN Missing(missing)
       ELSE IF ~IsNumber(d.amount) \/ d.amount.n <= 0
            THEN Invalid("Amount must be a positive number")
       ELSE IF ~IsNumber(d.odds) THEN Invalid("Odds must be a number")
       ELSE IF parse = "ValueError"
            THEN Invalid("Date must be in YYYY-MM-DD format")
       ELSE IF parse # "" THEN Raises(parse)
       ELSE Valid

\* the legs validate_parlay has looked at when it returns: all of them, or
\* those up to the first one it rejects
FirstBadLeg(legs) ==
    LET bad == {i \in 1..Len(legs) : ~validate_bet_leg(legs[i]).ok}
    IN IF bad = {} THEN 0 ELSE Min(bad)

\* validate_parlay asking for one leg where it asks for two
validate_parlay_OneLeg(d) ==
    LET required_fields == <<"type", "amount", "date", "legs">>
        missing == FirstMissing(d, required_fields)
        parse == Strptime(d.date)
        i == FirstBadLeg(d.legs.items)
    IN IF Get(d.type) # Str("parlay") THEN Invalid("Type must be 'parlay'")
       ELSE IF missing # "" THEN Missing(missing)
       ELSE IF ~IsNumber(d.amount) \/ d.amount.n <= 0
            THEN Invalid("Amount must be a positive number")
       ELSE IF d.legs.k # "list" THEN Invalid("Legs must be a list")
       ELSE IF Len(d.legs.items) < 1
            THEN Invalid("Parlay must have at least 2 legs")
       ELSE IF parse = "ValueError"
            THEN Invalid("Date must be in YYYY-MM-DD format")
       ELSE IF parse # "" THEN Raises(parse)
       ELSE IF i = 0 THEN Valid
       ELSE [validate_bet_leg(d.legs.items[i]) EXCEPT !.leg = i]

validate_parlay(d) ==
    LET required_fields == <<"type", "amount", "date", "legs">>
        missing == FirstMissing(d, required_fields)
        parse == Strptime(d.date)
        i == FirstBadLeg(d.legs.items)
    IN IF Get(d.type) # Str("parlay") THEN Invalid("Type must be 'parlay'")
       ELSE IF missing # "" THEN Missing(missing)
       ELSE IF ~IsNumber(d.amount) \/ d.amount.n <= 0
            THEN Invalid("Amount must be a positive number")
       ELSE IF d.legs.k # "list" THEN Invalid("Legs must be a list")
       ELSE IF Len(d.legs.items) < 2
            THEN Invalid("Parlay must have at least 2 legs")
       ELSE IF parse = "ValueError"
            THEN Invalid("Date must be in YYYY-MM-DD format")
       ELSE IF parse # "" THEN Raises(parse)
       ELSE IF i = 0 THEN Valid
       ELSE [validate_bet_leg(d.legs.items[i]) EXCEPT !.leg = i]

\* validate_parlay assigning a fresh id to every leg it accepted, whether or
\* not the leg has one
validate_parlay_effect_EveryLeg(d, v) ==
    IF ~(v.ok \/ v.leg > 0) THEN d
    ELSE LET assigned(j) == v.ok \/ j < v.leg
         IN [d EXCEPT !.legs.items =
                [j \in 1..Len(d.legs.items) |->
                    IF assigned(j)
                    THEN [d.legs.items[j] EXCEPT !.id = Uuid(j)]
                    ELSE d.legs.items[j]]]

\* the side effect of validate_parlay on its argument, given its verdict v:
\* every leg it accepted before returning gets an id if it has none
validate_parlay_effect(d, v) ==
    IF ~(v.ok \/ v.leg > 0) THEN d
    ELSE LET assigned(j) == (v.ok \/ j < v.leg) /\ ~Has(d.legs.items[j].id)
         IN [d EXCEPT !.legs.items =
                [j \in 1..Len(d.legs.items) |->
                    IF assigned(j)
                    THEN [d.legs.items[j] EXCEPT !.id = Uuid(j)]
                    ELSE d.legs.items[j]]]

validate_bet(d) ==
    IF Get(d.type) = Str("single") THEN validate_single_bet(d)
    ELSE IF Get(d.type) = Str("parlay") THEN validate_parlay(d)
    ELSE Invalid("Type must be 'single' or 'parlay'")

validate_bet_effect(d, v) ==
    IF Get(d.type) = Str("parlay") THEN validate_parlay_effect(d, v) ELSE d

-----------------------------------------------------------------------------
(* Bet slip parser (betslip_parser.py).  The outcome of a normalising      *)
(* function is the returned pair (bet, error_message), "" standing for no  *)
(* error, or the exception it raises.                                      *)

Normal(bet, error) == [exc |-> "", bet |-> bet, error |-> error]
Throws(e, msg) == [exc |-> e, bet |-> EmptyBet, error |-> msg]

\* str.lower() of the strings the model uses
Lower(s) ==
    CASE s \in {"Parlay", "PARLAY"} -> "parlay"
      [] s \in {"Single", "SINGLE"} -> "single"
      [] s = "Alice" -> "alice"
      [] s = "Bob" -> "bob"
      [] OTHER -> s

\* the single-bet dict built from the raw entry
SingleBet(r) ==
    [EmptyBet EXCEPT
        !.type = Str("single"),
        !.amount = Get(r.amount),
        !.date = Get(r.date),
        !.sport = Get(r.sport),
        !.teams = Get(r.teams),
        !.betType = Get(r.betType),
        !.selection = Get(r.selection),
        !.odds = Get(r.odds),
        !.status = GetDefault(r.status, Str("pending")),
        !.attributedTo =
            IF Truthy(r.attributedTo) THEN r.attributedTo ELSE Absent]

\* the end of _normalize_single_bet: the optional validation, v being the
\* verdict of validate_single_bet(bet)
SingleChecked(bet, validate, v) ==
    IF validate /\ v.exc # "" THEN Throws(v.exc, "")
    ELSE IF validate /\ ~v.ok THEN Normal(bet, v.error)
    ELSE Normal(bet, "")

_normalize_single_bet(r, validate) ==
    SingleChecked(SingleBet(r), validate,
                  IF validate THEN validate_single_bet(SingleBet(r)) ELSE Valid)

\* SameGame without the test of line 63 that the 'teams' value is truthy
SameGame_FalsyTeams(legs, i) ==
    {j \in 1..Len(legs) : PyEq(legs[j].teams, legs[i].teams)}

\* the legs grouped with leg i: those with the same truthy 'teams' value
SameGame(legs, i) ==
    IF ~Truthy(legs[i].teams) THEN {}
    ELSE {j \in 1..Len(legs) : Truthy(legs[j].teams)
                               /\ PyEq(legs[j].teams, legs[i].teams)}

\* odds is None or odds == 0
MissingOdds(leg) == Get(leg.odds) = Null \/ IsZero(leg.odds)

\* Case 1: the hint carried by the first leg of the group that has one
LegHint(legs, indices) ==
    LET hint(j) == Or(legs[j].combinedOdds, legs[j].sameGameParlayOdds)
        hinted == {j \in indices : Truthy(hint(j))}
    IN IF hinted = {} THEN Null ELSE hint(Min(hinted))

\* Case 2: every leg of the group has odds, and all the same value
AllSameOdds(legs, indices) ==
    /\ \A j \in indices : ~MissingOdds(legs[j])
    /\ \A j \in indices : PyEq(legs[j].odds, legs[Min(indices)].odds)

\* the odds a group's legs get from the group's combined odds: [exc, odds,
\* all] where odds is the individual odds to assign (Null for none) and all
\* tells whether every leg of the group gets them (should_recalculate) or
\* only the legs whose odds are missing
Individual(group_combined_odds, individual_odds, should_recalculate) ==
    IF group_combined_odds = Null \/ IsZero(group_combined_odds)
    THEN [exc |-> "", odds |-> Null, all |-> FALSE]
    ELSE IF individual_odds.exc \in {"ValueError", "ZeroDivisionError"}
    THEN [exc |-> "", odds |-> Null, all |-> FALSE]
    ELSE IF individual_odds.exc # ""
    THEN [exc |-> individual_odds.exc, odds |-> Null, all |-> FALSE]
    ELSE [exc |-> "", odds |-> Num(individual_odds.v), all |-> should_recalculate]

\* the three sources of a group's combined odds, in order of priority
GroupCombined(legs, indices, combined_odds, hint, echo, level) ==
    IF hint = Null /\ (\A j \in indices : ~MissingOdds(legs[j]))
       /\ (\E j \in indices : legs[j].odds.k \in {"list", "obj"})
    THEN [exc |-> "TypeError", odds |-> Null, all |-> FALSE]
    ELSE IF hint # Null
    THEN Individual(hint, reverse_calculate_equal_odds(hint, Cardinality(indices)),
                    FALSE)
    ELSE IF echo
    THEN Individual(legs[Min(indices)].odds,
                    reverse_calculate_equal_odds(legs[Min(indices)].odds,
                                                 Cardinality(indices)),
                    TRUE)
    ELSE IF level
    THEN Individual(combined_odds,
                    reverse_calculate_equal_odds(combined_odds, Cardinality(indices)),
                    TRUE)
    ELSE [exc |-> "", odds |-> Null, all |-> FALSE]

\* GroupOdds without the test of line 112 that every leg of the group is
\* missing its odds
GroupOdds_AnyMissing(legs, indices, combined_odds) ==
    GroupCombined(legs, indices, combined_odds,
                  LegHint(legs, indices),
                  LegHint(legs, indices) = Null /\ AllSameOdds(legs, indices),
                  /\ LegHint(legs, indices) = Null
                  /\ Get(combined_odds) # Null /\ ~IsZero(combined_odds))

\* what the loop body does for one group
GroupOdds(legs, indices, combined_odds) ==
    GroupCombined(legs, indices, combined_odds,
                  LegHint(legs, indices),
                  LegHint(legs, indices) = Null /\ AllSameOdds(legs, indices),
                  /\ LegHint(legs, indices) = Null
                  /\ Get(combined_odds) # Null /\ ~IsZero(combined_odds)
                  /\ \A j \in indices : MissingOdds(legs[j]))

\* AssignOdds filling only the legs whose odds are missing, as the resolver
\* did before it knew the echoed combined price
AssignOdds_MissingOnly(legs, grouped, g) ==
    IF \E i \in grouped : g[i].exc # ""
    THEN [exc |-> "TypeError", legs |-> legs]
    ELSE [exc |-> "",
          legs |-> [i \in 1..Len(legs) |->
              IF i \in grouped /\ g[i].odds # Null /\ MissingOdds(legs[i])
              THEN [legs[i] EXCEPT !.odds = g[i].odds]
              ELSE legs[i]]]

\* the legs after every group was handled, g[i] being the outcome of the
\* group of leg i
AssignOdds(legs, grouped, g) ==
    IF \E i \in grouped : g[i].exc # ""
    THEN [exc |-> "TypeError", legs |-> legs]
    ELSE [exc |-> "",
          legs |-> [i \in 1..Len(legs) |->
              IF i \in grouped /\ g[i].odds # Null
                 /\ (g[i].all \/ MissingOdds(legs[i]))
              THEN [legs[i] EXCEPT !.odds = g[i].odds]
              ELSE legs[i]]]

\* _handle_same_game_parlay_odds: [exc, legs]
_handle_same_game_parlay_odds(legs, combined_odds) ==
    IF \E i \in 1..Len(legs) :
          Truthy(legs[i].teams) /\ legs[i].teams.k \in {"list", "obj"}
    THEN [exc |-> "TypeError", legs |-> legs]
    ELSE AssignOdds(legs,
                    {i \in 1..Len(legs) : Cardinality(SameGame(legs, i)) >= 2},
                    [i \in 1..Len(legs) |->
                        GroupOdds(legs, SameGame(legs, i), combined_odds)])

\* the copy _normalize_parlay_bet makes of leg i of the raw entry
LegCopy(leg, i) ==
    [EmptyLeg EXCEPT
        !.id = IF Truthy(leg.id) THEN leg.id ELSE Uuid(i),
        !.sport = Get(leg.sport),
        !.teams = Get(leg.teams),
        !.betType = Get(leg.betType),
        !.selection = Get(leg.selection),
        !.odds = Get(leg.odds),
        !.attributedTo =
            IF Truthy(leg.attributedTo) THEN leg.attributedTo ELSE Absent]

\* the parlay dict built from the raw entry and its legs
ParlayBet(r, legs) ==
    [EmptyBet EXCEPT
        !.type = Str("parlay"),
        !.amount = Get(r.amount),
        !.date = Get(r.date),
        !.legs = LegsList(legs),
        !.status = GetDefault(r.status, Str("pending")),
        !.attributedTo =
            IF Truthy(r.attributedTo) THEN r.attributedTo ELSE Absent]

\* the end of _normalize_parlay_bet: the optional validation, v being the
\* verdict of validate_parlay(bet)
ParlayChecked(bet, validate, v) ==
    IF validate /\ v.exc # "" THEN Throws(v.exc, "")
    ELSE IF validate /\ ~v.ok THEN Normal(bet, v.error)
    ELSE Normal(bet, "")

\* _normalize_parlay_bet once the legs were copied and resolved
ParlayResolved(r, validate, resolved) ==
    IF resolved.exc # "" THEN Throws(resolved.exc, "")
    ELSE ParlayChecked(ParlayBet(r, resolved.legs), validate,
                       IF validate
                       THEN validate_parlay(ParlayBet(r, resolved.legs))
                       ELSE Valid)

\* _normalize_parlay_bet, legs_in being raw.get("legs") or []
ParlayLegs(r, validate, legs_in) ==
    IF legs_in.k # "list"
    THEN IF validate
         THEN Throws("BetSlipParserError", "Parlay 'legs' must be a list")
         ELSE Normal(ParlayBet(r, <<>>), "Parlay 'legs' must be a list")
    ELSE IF \E i \in 1..Len(legs_in.items) : legs_in.items[i].shape # "dict"
    THEN Throws("AttributeError", "")
    ELSE ParlayResolved(r, validate,
            _handle_same_game_parlay_odds(
                [i \in 1..Len(legs_in.items) |-> LegCopy(legs_in.items[i], i)],
                Or(r.combinedOdds, Or(r.sameGameParlayOdds, Get(r.parlayOdds)))))

_normalize_parlay_bet(r, validate) ==
    ParlayLegs(r, validate, IF Truthy(r.legs) THEN r.legs ELSE LegsList(<<>>))

\* _normalize_bet once the declared type was lower-cased
NormalizeTyped(r, validate, bet_type) ==
    IF bet_type = "single" THEN _normalize_single_bet(r, validate)
    ELSE IF bet_type = "parlay" THEN _normalize_parlay_bet(r, validate)
    ELSE IF validate
    THEN Throws("BetSlipParserError", "Bet 'type' must be 'single' or 'parlay'")
    ELSE Normal([r EXCEPT !.type = IF Has(r.type) THEN r.type
                                   ELSE Str("unknown")],
                "Bet 'type' must be 'single' or 'parlay'")

_normalize_bet(r, validate) ==
    IF r.shape # "dict" THEN Throws("AttributeError", "")
    ELSE IF Truthy(r.type) /\ r.type.k # "str" THEN Throws("AttributeError", "")
    ELSE NormalizeTyped(r, validate,
                        IF Truthy(r.type) THEN Lower(r.type.s) ELSE "")

\* a warning string, carried as the facts it is formatted from
Warning(kind, idx, count, cap, error) ==
    [kind |-> kind, idx |-> idx, count |-> count, cap |-> cap, error |-> error]

\* LoadBets with a missing or null 'bets' read as an empty list
LoadBets_MissingAsEmpty(mo) ==
    IF ~mo.json THEN [exc |-> "BetSlipParserError", bets_raw |-> <<>>]
    ELSE IF mo.top # "dict" THEN [exc |-> "BetSlipParserError", bets_raw |-> <<>>]
    ELSE IF mo.bets.k \in {"absent", "null"} THEN [exc |-> "", bets_raw |-> <<>>]
    ELSE IF mo.bets.k # "list"
    THEN [exc |-> "BetSlipParserError", bets_raw |-> <<>>]
    ELSE [exc |-> "", bets_raw |-> mo.bets.items]

\* json.loads and the checks of the top-level shape: [exc, bets_raw]
LoadBets(mo) ==
    IF ~mo.json THEN [exc |-> "BetSlipParserError", bets_raw |-> <<>>]
    ELSE IF mo.top # "dict" THEN [exc |-> "BetSlipParserError", bets_raw |-> <<>>]
    ELSE IF mo.bets.k \in {"absent", "null"}
    THEN [exc |-> "BetSlipParserError", bets_raw |-> <<>>]
    ELSE IF mo.bets.k # "list"
    THEN [exc |-> "BetSlipParserError", bets_raw |-> <<>>]
    ELSE [exc |-> "", bets_raw |-> mo.bets.items]

\* BetsIter with the comparison off by one (>= for >)
BetsIter_AtCap(bets_raw, cap) ==
    IF Len(bets_raw) >= cap
    THEN [warnings |-> <<Warning("truncated_bets", 0, Len(bets_raw), cap, "")>>,
          bets_iter |-> SubSeq(bets_raw, 1, cap)]
    ELSE [warnings |-> <<>>, bets_iter |-> bets_raw]

\* the cap on the number of bets: [warnings, bets_iter]
BetsIter(bets_raw, cap) ==
    IF Len(bets_raw) > cap
    THEN [warnings |-> <<Warning("truncated_bets", 0, Len(bets_raw), cap, "")>>,
          bets_iter |-> SubSeq(bets_raw, 1, cap)]
    ELSE [warnings |-> <<>>, bets_iter |-> bets_raw]

\* LegsOverCap with the comparison off by one (>= for >)
LegsOverCap_AtCap(raw_bet, cap) ==
    /\ raw_bet.shape = "dict"
    /\ Get(raw_bet.type) = Str("parlay")
    /\ Truthy(raw_bet.legs) /\ raw_bet.legs.k = "list"
    /\ Len(raw_bet.legs.items) >= cap

\* the test guarding the cap on the legs of a parlay
LegsOverCap(raw_bet, cap) ==
    /\ raw_bet.shape = "dict"
    /\ Get(raw_bet.type) = Str("parlay")
    /\ Truthy(raw_bet.legs) /\ raw_bet.legs.k = "list"
    /\ Len(raw_bet.legs.items) > cap

\* the end of the loop body for entry idx, n being the outcome of
\* _normalize_bet(raw_bet, validate=False) and w the warning of the legs cap:
\* [exc, bets, warnings], the records and the warnings the body appends, or
\* the exception that leaves the loop
EntryOutcome(raw_bet, idx, w, n) ==
    IF n.exc = "BetSlipParserError"
    THEN IF raw_bet.shape = "dict"
         THEN [exc |-> "",
               bets |-> <<[raw_bet EXCEPT !._validationError = n.error]>>,
               warnings |-> Append(w, Warning("parsing", idx, 0, 0, n.error))]
         ELSE [exc |-> "", bets |-> <<>>,
               warnings |-> Append(w, Warning("skipped", idx, 0, 0, n.error))]
    ELSE IF n.exc # "" THEN [exc |-> n.exc, bets |-> <<>>, warnings |-> <<>>]
    ELSE IF n.error # ""
    THEN [exc |-> "",
          bets |-> <<[n.bet EXCEPT !._validationError = n.error]>>,
          warnings |-> Append(w, Warning("validation", idx, 0, 0, n.error))]
    ELSE [exc |-> "", bets |-> <<n.bet>>, warnings |-> w]

\* the entry after the cap on its legs was enforced
CapLegs(entry, cap) ==
    IF LegsOverCap(entry, cap)
    THEN [entry EXCEPT !.legs = LegsList(SubSeq(entry.legs.items, 1, cap))]
    ELSE entry

\* the body of the loop for entry idx
ParseEntry(entry, idx, cap) ==
    EntryOutcome(CapLegs(entry, cap), idx,
                 IF LegsOverCap(entry, cap)
                 THEN <<Warning("truncated_legs", idx, Len(entry.legs.items),
                                cap, "")>>
                 ELSE <<>>,
                 _normalize_bet(CapLegs(entry, cap), FALSE))

\* the loop over bets_iter, from entry idx on
RECURSIVE ParseLoop(_, _, _, _, _)

\* one pass of the loop, step being the outcome of its body
ParseStep(bets_iter, idx, valid_bets, warnings, cap, step) ==
    IF step.exc # "" THEN [exc |-> step.exc, bets |-> <<>>, warnings |-> <<>>]
    ELSE ParseLoop(bets_iter, idx + 1, valid_bets \o step.bets,
                   warnings \o step.warnings, cap)

ParseLoop(bets_iter, idx, valid_bets, warnings, cap) ==
    IF idx > Len(bets_iter)
    THEN [exc |-> "", bets |-> valid_bets, warnings |-> warnings]
    ELSE ParseStep(bets_iter, idx, valid_bets, warnings, cap,
                   ParseEntry(bets_iter[idx], idx, cap))

\* parse_bets_from_model_output(model_output, max_bets, max_legs_per_parlay):
\* [exc, bets, warnings]
ParseLoaded(loaded, capped, legs_cap) ==
    IF loaded.exc # ""
    THEN [exc |-> loaded.exc, bets |-> <<>>, warnings |-> <<>>]
    ELSE ParseLoop(capped.bets_iter, 1, <<>>, capped.warnings, legs_cap)

parse_bets_from_model_output(mo, bets_cap, legs_cap) ==
    ParseLoaded(LoadBets(mo), BetsIter(LoadBets(mo).bets_raw, bets_cap), legs_cap)

-----------------------------------------------------------------------------
(* Inputs of the parser: model outputs built from a pool of entries that   *)
(* covers the shapes a vision model returns.                               *)

TeamNames == <<"Lakers vs Celtics", "Yankees vs Red Sox", "Jets vs Bills",
               "Bruins vs Leafs", "Inter vs Milan", "Mets vs Cubs">>

GoodLeg(teams, odds) ==
    [EmptyLeg EXCEPT !.sport = Str("NBA"), !.teams = Str(teams),
                     !.betType = Str("spread"), !.selection = Str("pick"),
                     !.odds = Num(odds)]

\* n legs on n different games
DistinctLegs(n) ==
    [i \in 1..n |-> GoodLeg(TeamNames[i], -(110 + 10 * i) * Hundred)]

\* n legs on one game, every leg showing the same odds
EchoLegs(n, odds) == [i \in 1..n |-> GoodLeg(TeamNames[1], odds)]

SingleEntry(type) ==
    [EmptyBet EXCEPT !.type = Str(type), !.amount = Num(50 * Hundred),
                     !.date = Str("2025-01-15"), !.sport = Str("NFL"),
                     !.teams = Str("Team A vs Team B"),
                     !.betType = Str("spread"),
                     !.selection = Str("Team A -3.5"),
                     !.odds = Num(-110 * Hundred)]

ParlayEntry(type, legs) ==
    [EmptyBet EXCEPT !.type = Str(type), !.amount = Num(25 * Hundred),
                     !.date = Str("2025-01-15"), !.legs = legs]

EntryPool ==
    { SingleEntry("single"),
      [SingleEntry("single") EXCEPT !.amount = Absent],
      [SingleEntry("single") EXCEPT !.sport = Str("")],
      ParlayEntry("parlay", LegsList(DistinctLegs(max_legs_per_parlay))),
      ParlayEntry("parlay", LegsList(DistinctLegs(max_legs_per_parlay + 1))),
      ParlayEntry("Parlay", LegsList(DistinctLegs(max_legs_per_parlay + 1))),
      ParlayEntry("parlay", LegsList(DistinctLegs(1))),
      ParlayEntry("parlay", LegsList(EchoLegs(2, -150 * Hundred))),
      ParlayEntry("parlay",
                  LegsList([i \in 1..2 |->
                      [GoodLeg(TeamNames[1], 0) EXCEPT !.odds = Str("-150")]])),
      [ParlayEntry("parlay", LegsList(EchoLegs(2, 0))) EXCEPT
          !.parlayOdds = Str("+200")],
      ParlayEntry("parlay", LegsValue(Str("two legs"))),
      ParlayEntry("parlay",
                  LegsList(<<GoodLeg(TeamNames[1], -110 * Hundred),
                             NonDictLeg("str")>>)),
      [EmptyBet EXCEPT !.type = Str("teaser"), !.amount = Num(10 * Hundred)],
      [EmptyBet EXCEPT !.amount = Num(10 * Hundred)],
      NonDictBet("num") }

RECURSIVE SeqsUpTo(_, _)
SeqsUpTo(S, n) ==
    IF n = 0 THEN {<<>>}
    ELSE LET shorter == SeqsUpTo(S, n - 1)
         IN shorter \cup {Append(q, x) : q \in shorter, x \in S}

JsonText(top, bets) == [json |-> TRUE, top |-> top, bets |-> bets]

ModelOutputs ==
    { [json |-> FALSE, top |-> "", bets |-> LegsValue(Absent)] }
    \cup { JsonText(top, LegsValue(Absent)) : top \in {"list", "str", "num", "null"} }
    \cup { JsonText("dict", LegsValue(b)) :
              b \in {Absent, Null, Str("none"), Num(0), ListVal(0)} \ {ListVal(0)} }
    \cup { JsonText("dict", [k |-> "obj", n |-> 1, s |-> "", items |-> <<>>]) }
    \cup { JsonText("dict", LegsList(q)) : q \in SeqsUpTo(EntryPool, max_bets + 1) }

NotCalled == [state |-> "none", exc |-> "", bets |-> <<>>, warnings |-> <<>>]
NoVerdict == [ok |-> FALSE, error |-> "", field |-> "", leg |-> 0, exc |-> "none"]
NoOutcome == [exc |-> "none", bet |-> EmptyBet, error |-> ""]
NoResponse == [status |-> 0, code |-> ""]
NoProfiles == <<>>

-----------------------------------------------------------------------------
(* The parser as a state machine: a model output arrives, the handler      *)
(* calls parse_bets_from_model_output on it once.                          *)

ParseInit ==
    /\ model_output \in ModelOutputs
    /\ parsed = NotCalled
    /\ raw = EmptyBet /\ normalized = NoOutcome
    /\ data = EmptyBet /\ verdict = NoVerdict
    /\ table = <<>> /\ profiles = NoProfiles /\ response = NoResponse

Parse ==
    /\ parsed.state = "none"
    /\ LET r == parse_bets_from_model_output(model_output, max_bets,
                                             max_legs_per_parlay)
       IN parsed' = [state |-> IF r.exc = "" THEN "returned" ELSE "raised",
                     exc |-> r.exc, bets |-> r.bets, warnings |-> r.warnings]
    /\ UNCHANGED <<model_output, raw, normalized, data, verdict, table, profiles, response>>

ParseNext == Parse

SpecParse == ParseInit /\ [][ParseNext]_vars

-----------------------------------------------------------------------------
(* Properties of the parser *)

\* the batch-level failures: not JSON, not an object, no 'bets' array
Malformed(mo) == ~mo.json \/ mo.top # "dict" \/ mo.bets.k # "list"

Entries == model_output.bets.items

Smaller(a, b) == IF a <= b THEN a ELSE b

\* C1: whenever the model output is not parseable JSON, is not an object,
\* has no 'bets' key (or a null one) or has a 'bets' value that is not an
\* array, the call raises BetSlipParserError and returns no records and no
\* warnings.
C1_MalformedOutputIsBatchFatal ==
    (parsed.state # "none" /\ Malformed(model_output))
    => /\ parsed.state = "raised"
       /\ parsed.exc = "BetSlipParserError"
       /\ parsed.bets = <<>> /\ parsed.warnings = <<>>

C1_Witness ==
    /\ parsed.state = "raised"
    /\ model_output.json /\ model_output.top = "dict"
    /\ model_output.bets.k = "str"

\* C2: for any model output that is an object whose 'bets' value is an
\* array the call returns normally, with exactly one record per entry among
\* the first max_bets entries, whatever the entries are.
C2_NoEntryAbortsTheBatch ==
    (parsed.state # "none" /\ ~Malformed(model_output))
    => /\ parsed.state = "returned"
       /\ Len(parsed.bets) = Smaller(Len(Entries), max_bets)

\* C3: every emitted single or parlay record that the validator rejects
\* carries _validationError and is matched by a warning naming its 1-based
\* index, and every emitted single or parlay record without the marker
\* passes the validator.
C3_RejectedRecordsCarryTheMarker ==
    parsed.state = "returned"
    => \A i \in 1..Len(parsed.bets) :
          Get(parsed.bets[i].type) \in {Str("single"), Str("parlay")}
          => /\ ~validate_bet(parsed.bets[i]).ok
                => /\ parsed.bets[i]._validationError # ""
                   /\ \E j \in 1..Len(parsed.warnings) :
                         /\ parsed.warnings[j].idx = i
                         /\ parsed.warnings[j].kind \in {"validation", "parsing"}
             /\ parsed.bets[i]._validationError = ""
                => validate_bet(parsed.bets[i]).ok

\* an entry that is a single bet or a parlay the validator accepts
ValidEntry(e) == e.shape = "dict" /\ validate_bet(e).ok

AllValidWithinCaps ==
    /\ ~Malformed(model_output)
    /\ Len(Entries) <= max_bets
    /\ \A i \in 1..Len(Entries) :
          ValidEntry(Entries[i]) /\ Entries[i].legs.n <= max_legs_per_parlay

\* C4: when every entry is a single bet or parlay that passes the validator
\* and the caps are respected, the call returns one record per entry, each
\* with the entry's type and number of legs, and no warnings.
C4_ValidBatchParsesCleanly ==
    (parsed.state # "none" /\ AllValidWithinCaps)
    => /\ parsed.state = "returned"
       /\ Len(parsed.bets) = Len(Entries)
       /\ \A i \in 1..Len(Entries) :
             /\ parsed.bets[i].type = Entries[i].type
             /\ parsed.bets[i].legs.n = Entries[i].legs.n
       /\ parsed.warnings = <<>>

C4_Witness ==
    /\ parsed.state = "returned" /\ AllValidWithinCaps
    /\ Len(Entries) = max_bets
    /\ \E i \in 1..Len(Entries) : Entries[i].type = Str("single")
    /\ \E i \in 1..Len(Entries) :
          Entries[i].type = Str("parlay")
          /\ Entries[i].legs.n = max_legs_per_parlay

TruncationWarnings ==
    {j \in 1..Len(parsed.warnings) : parsed.warnings[j].kind = "truncated_bets"}

\* C5: the call never returns more than max_bets records; when the array
\* has more than max_bets entries the records are those of the first
\* max_bets entries, in order, and the one truncation warning comes first;
\* otherwise there is no truncation warning.
C5_AtMostMaxBetsRecords ==
    parsed.state = "returned"
    => /\ Len(parsed.bets) <= max_bets
       /\ Len(parsed.bets) = Smaller(Len(Entries), max_bets)
       /\ \A i \in 1..Len(parsed.bets) :
             <<parsed.bets[i]>> =
                 ParseEntry(Entries[i], i, max_legs_per_parlay).bets
       /\ IF Len(Entries) > max_bets
          THEN /\ TruncationWarnings = {1}
               /\ parsed.warnings[1].count = Len(Entries)
               /\ parsed.warnings[1].cap = max_bets
          ELSE TruncationWarnings = {}

C5_Witness ==
    /\ parsed.state = "returned"
    /\ Len(Entries) > max_bets
    /\ Len(parsed.bets) = max_bets
    /\ Len(parsed.warnings) >= 2

\* C6: every record of type parlay that is returned has at most
\* max_legs_per_parlay legs, whatever the letter case of the declared type.
C6_ParlayRecordsWithinLegCap ==
    parsed.state = "returned"
    => \A i \in 1..Len(parsed.bets) :
          Get(parsed.bets[i].type) = Str("parlay")
          => parsed.bets[i].legs.n <= max_legs_per_parlay

-----------------------------------------------------------------------------
(* The normaliser of one parlay entry as a state machine: the entry        *)
(* arrives, _normalize_parlay_bet is called on it once, with or without    *)
(* validation.                                                             *)

LegTeams == {Str("Lakers vs Celtics"), Str("Jets vs Bills"), Null}
LegOdds == {Num(-150 * Hundred), Num(-110 * Hundred), Num(0), Null, Str("-150")}

LegPool ==
    { [GoodLeg("", 0) EXCEPT !.teams = tm, !.odds = od] :
          tm \in LegTeams, od \in LegOdds }
    \cup { [GoodLeg("Lakers vs Celtics", 0) EXCEPT
               !.odds = Null, !.combinedOdds = Num(-150 * Hundred)],
           [GoodLeg("Lakers vs Celtics", -110 * Hundred) EXCEPT
               !.sameGameParlayOdds = Num(200 * Hundred)],
           [GoodLeg("", 0) EXCEPT !.odds = Null] }

RawParlays ==
    { [ParlayEntry("parlay", LegsList(q)) EXCEPT !.parlayOdds = hint] :
          q \in SeqsUpTo(LegPool, MaxLegs),
          hint \in {Absent, Num(200 * Hundred)} }

NormalizeInit ==
    /\ raw \in RawParlays
    /\ normalized = NoOutcome
    /\ model_output = JsonText("dict", LegsValue(Absent)) /\ parsed = NotCalled
    /\ data = EmptyBet /\ verdict = NoVerdict
    /\ table = <<>> /\ profiles = NoProfiles /\ response = NoResponse

Normalize ==
    /\ normalized.exc = "none"
    /\ \E validate \in BOOLEAN :
          normalized' = _normalize_parlay_bet(raw, validate)
    /\ UNCHANGED <<model_output, parsed, raw, data, verdict, table, profiles, response>>

NormalizeNext == Normalize

SpecNormalize == NormalizeInit /\ [][NormalizeNext]_vars

RawLegs == raw.legs.items
OutLegs == normalized.bet.legs.items

\* leg i of the raw parlay is in a same-teams group of at least 2 legs that
\* all show one identical nonzero number as odds, and the entry carries no
\* combined-odds field, neither on a leg of the group nor on the parlay
Echoed(i) ==
    /\ Cardinality(SameGame(RawLegs, i)) >= 2
    /\ \A j \in SameGame(RawLegs, i) :
          /\ IsNumber(RawLegs[j].odds) /\ RawLegs[j].odds.n # 0
          /\ RawLegs[j].odds = RawLegs[i].odds
          /\ ~Has(RawLegs[j].combinedOdds) /\ ~Has(RawLegs[j].sameGameParlayOdds)
    /\ ~Has(raw.combinedOdds) /\ ~Has(raw.sameGameParlayOdds)
    /\ ~Has(raw.parlayOdds)

\* C7: in a normalised parlay every leg of a same-teams group whose legs all
\* showed one identical nonzero odds value (no combined-odds field being
\* present) has odds reverse_calculate_equal_odds(sharedValue, groupSize),
\* and no such leg keeps the echoed value.
C7_EchoedOddsAreReplaced ==
    normalized.exc = ""
    => \A i \in 1..Len(RawLegs) :
          Echoed(i)
          => /\ OutLegs[i].odds =
                   Num(reverse_calculate_equal_odds(
                           RawLegs[i].odds,
                           Cardinality(SameGame(RawLegs, i))).v)
             /\ OutLegs[i].odds # RawLegs[i].odds

C7_Witness ==
    /\ normalized.exc = ""
    /\ Len(RawLegs) = 2 /\ Echoed(1) /\ Echoed(2)
    /\ RawLegs[1].odds = Num(-150 * Hundred)
    /\ OutLegs[1].odds # Num(-150 * Hundred)
    /\ OutLegs[2].odds = OutLegs[1].odds

-----------------------------------------------------------------------------
(* The validator as a state machine: a bet dict arrives, the resolver may  *)
(* run on its legs, validate_bet is called on it once.                     *)

Amounts == {Absent, Null, Num(0), Num(25 * Hundred), Str("25")}
DateValues == {Absent, Null, Str("2025-01-15"), Str("2025-02-29"), Str("01/15/2025")}
Texts == {Null, Str(""), Str("NFL")}
OddsValues == {Absent, Null, Num(0), Num(-110 * Hundred), Str("-110")}

SingleBets ==
    { [EmptyBet EXCEPT !.type = Str("single"), !.amount = am, !.date = dt,
                       !.sport = sp, !.teams = tm, !.betType = bt,
                       !.selection = sl, !.odds = od] :
          am \in Amounts, dt \in DateValues, sp \in Texts \cup {Num(7 * Hundred)},
          tm \in Texts, bt \in {Absent, Str("spread")},
          sl \in Texts \cup {Str(" ")}, od \in OddsValues }

ValidatorLegs ==
    { GoodLeg("Lakers vs Celtics", -110 * Hundred),
      GoodLeg("Lakers vs Celtics", -150 * Hundred),
      [GoodLeg("Lakers vs Celtics", 0) EXCEPT !.odds = Null],
      [GoodLeg("Jets vs Bills", -110 * Hundred) EXCEPT !.sport = Str(" ")],
      [GoodLeg("Jets vs Bills", 0) EXCEPT !.id = Str("leg-7")],
      [GoodLeg("Jets vs Bills", -110 * Hundred) EXCEPT !.id = Null] }

ParlayBets ==
    { [EmptyBet EXCEPT !.type = Str("parlay"), !.amount = am, !.date = dt,
                       !.legs = lg, !.parlayOdds = hint] :
          am \in Amounts, dt \in DateValues,
          lg \in {LegsValue(Absent), LegsValue(Str("two legs"))}
                 \cup {LegsList(q) : q \in SeqsUpTo(ValidatorLegs, MaxLegs)},
          hint \in {Absent, Num(200 * Hundred)} }

ValidateInit ==
    /\ data \in SingleBets \cup ParlayBets
    /\ raw = data
    /\ verdict = NoVerdict
    /\ model_output = JsonText("dict", LegsValue(Absent)) /\ parsed = NotCalled
    /\ normalized = NoOutcome
    /\ table = <<>> /\ profiles = NoProfiles /\ response = NoResponse

\* the legs of d after the resolver returned them
ResolvedLegs(d, resolved) ==
    IF resolved.exc = "" THEN [d EXCEPT !.legs.items = resolved.legs] ELSE d

\* the resolver runs on the legs of a parlay before it is validated, as in
\* _normalize_parlay_bet; normalized records that it ran
Resolve ==
    /\ verdict.exc = "none" /\ normalized.exc = "none"
    /\ data.legs.k = "list"
    /\ data' = ResolvedLegs(data, _handle_same_game_parlay_odds(
                                      data.legs.items, Get(data.parlayOdds)))
    /\ normalized' = Normal(data', "")
    /\ UNCHANGED <<model_output, parsed, raw, verdict, table, profiles, response>>

Validate ==
    /\ verdict.exc = "none"
    /\ verdict' = validate_bet(data)
    /\ data' = validate_bet_effect(data, verdict')
    /\ UNCHANGED <<model_output, parsed, raw, normalized, table, profiles, response>>

ValidateNext == Resolve \/ Validate

SpecValidate == ValidateInit /\ [][ValidateNext]_vars

Validated == verdict.exc # "none"
Resolved == normalized.exc = ""

\* a parlay whose legs list holds fewer than 2 legs
ShortParlay == data.type = Str("parlay") /\ data.legs.k = "list" /\ data.legs.n < 2

\* the amount is a positive number
PositiveAmount(d) == IsNumber(d.amount) /\ d.amount.n > 0

\* C9 as claimed: a parlay with fewer than 2 legs is rejected with the
\* message citing 'at least 2 legs', whatever its other fields are.
C9_ShortParlayCitesTwoLegs ==
    (Validated /\ ShortParlay)
    => /\ ~verdict.ok /\ verdict.exc = ""
       /\ verdict.error = "Parlay must have at least 2 legs"

\* C9 as amended: a parlay with fewer than 2 legs is always rejected by a
\* returned verdict, whether or not the resolver ran; the message cites 'at
\* least 2 legs' exactly when the amount and date keys are present and the
\* amount is a positive number: a missing amount or date key and an amount
\* that is not a positive number are reported first.
C9_ShortParlayIsRejected ==
    (Validated /\ ShortParlay)
    => /\ ~verdict.ok /\ verdict.exc = ""
       /\ verdict.error = "Parlay must have at least 2 legs"
          <=> (Has(data.amount) /\ Has(data.date) /\ PositiveAmount(data))
       /\ (~Has(data.amount) \/ ~Has(data.date))
          => verdict.error = "Missing required field"
       /\ (Has(data.amount) /\ Has(data.date) /\ ~PositiveAmount(data))
          => verdict.error = "Amount must be a positive number"

C9_Witness ==
    /\ Validated /\ Resolved /\ ShortParlay /\ data.legs.n = 1
    /\ PositiveAmount(data) /\ data.date = Str("2025-02-29")
    /\ verdict.error = "Parlay must have at least 2 legs"

\* a field of a single bet that is missing or invalid
SingleFieldInvalid(d) ==
    \/ ~PositiveAmount(d)
    \/ Strptime(d.date) # ""
    \/ ~NonEmptyString(d.sport)
    \/ ~NonEmptyString(d.teams)
    \/ ~Has(d.betType) \/ Get(d.betType) = Null
    \/ ~NonEmptyString(d.selection)
    \/ ~IsNumber(d.odds)

\* C10: a single bet with a missing or invalid type, amount, date, sport,
\* teams, betType, selection or odds gets a not-ok verdict with a message;
\* in particular one whose sport, teams or selection is null, not a string
\* or empty.
C10_InvalidSingleIsRejected ==
    (Validated /\ data.type = Str("single") /\ SingleFieldInvalid(data))
    => ~verdict.ok /\ verdict.exc = "" /\ verdict.error # ""

-----------------------------------------------------------------------------
(* Users table and permission checks (user_service.py, auth.py).  A        *)
(* profile is what the lookup of a user id meets: whether get_item answers *)
(* or fails, whether it finds an item, the keys the item has, the set of   *)
(* its feature flags that are true and the set of its aliases.             *)

Users == {"u1", "u2"}

\* get_user_profile found no item
NoProfile ==
    [exists |-> FALSE, lookup |-> "Item", keys |-> {}, role |-> "",
     featureFlags |-> {}, aliases |-> {}]

\* the flags get_default_feature_flags(role) sets to True
get_default_feature_flags(role) ==
    IF role = "admin"
    THEN {"canCreateBets", "canManageBets", "canDeleteBets", "canClearWeek",
          "canBetslipImport", "seeManageBetsPage", "canEditBets",
          "canMarkBetFeatures", "canMarkBetWinLoss"}
    ELSE {"canCreateBets"}

UserProfile(role, flags, aliases) ==
    [exists |-> TRUE, lookup |-> "Item", keys |-> {"featureFlags", "aliases"},
     role |-> role, featureFlags |-> flags, aliases |-> aliases]

\* user_service.get_user_profile: the item, NoProfile for None (no item, or
\* a ClientError of get_item), or the exception that is not a ClientError
get_user_profile(profile) ==
    IF profile.lookup = "BotoCoreError" THEN Raise("BotoCoreError")
    ELSE IF profile.lookup = "ClientError" \/ ~profile.exists THEN Ok(NoProfile)
    ELSE Ok(profile)

\* user_service.check_feature_flag, which auth.py imports under this name
_check_feature_flag(profile, flag_name) ==
    IF get_user_profile(profile).exc # ""
    THEN Raise(get_user_profile(profile).exc)
    ELSE IF ~get_user_profile(profile).v.exists THEN Ok(FALSE)
    ELSE IF "featureFlags" \notin profile.keys THEN Ok(FALSE)
    ELSE Ok(flag_name \in profile.featureFlags)

\* auth.check_feature_flag without its try/except
check_feature_flag_Uncaught(profile, flag_name) ==
    _check_feature_flag(profile, flag_name)

\* auth.check_feature_flag: any exception of the lookup becomes False
check_feature_flag(profile, flag_name) ==
    IF _check_feature_flag(profile, flag_name).exc # "" THEN Ok(FALSE)
    ELSE _check_feature_flag(profile, flag_name)

\* user_service.get_user_aliases
get_user_aliases(profile) ==
    IF get_user_profile(profile).exc # ""
    THEN Raise(get_user_profile(profile).exc)
    ELSE IF ~get_user_profile(profile).v.exists THEN Ok({})
    ELSE IF "aliases" \notin profile.keys THEN Ok({})
    ELSE Ok(profile.aliases)

\* auth._get_user_aliases: any exception of the lookup becomes []
_get_user_aliases(profile) ==
    IF get_user_aliases(profile).exc # "" THEN {}
    ELSE get_user_aliases(profile).v

\* attributed_to in user_aliases, after str.lower() of both
_is_attributed_to_user_IgnoreCase(attributed_to, user_aliases) ==
    /\ Truthy(attributed_to) /\ user_aliases # {}
    /\ attributed_to.k = "str"
    /\ \E alias \in user_aliases : Lower(alias) = Lower(attributed_to.s)

_is_attributed_to_user(attributed_to, user_aliases) ==
    /\ Truthy(attributed_to) /\ user_aliases # {}
    /\ attributed_to.k = "str" /\ attributed_to.s \in user_aliases

\* bet.get("type", "single") == "single"
IsSingle(bet) == GetDefault(bet.type, Str("single")) = Str("single")
\* bet.get("type", "single") == "parlay"
IsParlay(bet) == GetDefault(bet.type, Str("single")) = Str("parlay")

\* whether the flags of the profile allow the action on "all" bets, on
\* the caller's "own" bets or on "none"; "raise" when a flag check raises
Scope(profile, global_flag, own_flag) ==
    IF check_feature_flag(profile, global_flag).exc # "" THEN "raise"
    ELSE IF check_feature_flag(profile, global_flag).v THEN "all"
    ELSE IF check_feature_flag(profile, own_flag).exc # "" THEN "raise"
    ELSE IF check_feature_flag(profile, own_flag).v THEN "own"
    ELSE "none"

\* the exception a check lets through, "" for none
Propagated(scope) == IF scope = "raise" THEN "BotoCoreError" ELSE ""

\* the permission on a bet or a leg d under a scope
Allowed(scope, d, user_aliases) ==
    \/ scope = "all"
    \/ scope = "own" /\ _is_attributed_to_user(Get(d.attributedTo), user_aliases)

\* one entry per leg of bet.get("legs", []); a single bet gets no leg vector
PerLeg(scope, bet, user_aliases) ==
    IF IsSingle(bet) THEN <<>>
    ELSE [i \in 1..Len(bet.legs.items) |->
             Allowed(scope, bet.legs.items[i], user_aliases)]

check_can_see_manage_bets_page(profile) ==
    [exc |-> Propagated(Scope(profile, "seeManageBetsPage", "seeManageBetsPageOwn")),
     can_see |-> Scope(profile, "seeManageBetsPage", "seeManageBetsPageOwn")
                    \in {"all", "own"}]

check_can_edit_bet(profile, bet) ==
    [exc |-> Propagated(Scope(profile, "canEditBets", "canEditBetsOwn")),
     can_edit_overall |->
         Allowed(Scope(profile, "canEditBets", "canEditBetsOwn"), bet,
                 _get_user_aliases(profile)),
     can_edit_legs |->
         PerLeg(Scope(profile, "canEditBets", "canEditBetsOwn"), bet,
                _get_user_aliases(profile))]

check_can_mark_featured(profile, bet) ==
    [exc |-> Propagated(Scope(profile, "canMarkBetFeatures", "canMarkBetFeaturesOwn")),
     can_mark_featured |->
         Allowed(Scope(profile, "canMarkBetFeatures", "canMarkBetFeaturesOwn"), bet,
                 _get_user_aliases(profile))]

check_can_mark_win_loss(profile, bet) ==
    [exc |-> Propagated(Scope(profile, "canMarkBetWinLoss", "canMarkBetWinLossOwn")),
     can_mark_overall |->
         Allowed(Scope(profile, "canMarkBetWinLoss", "canMarkBetWinLossOwn"), bet,
                 _get_user_aliases(profile)),
     can_mark_legs |->
         PerLeg(Scope(profile, "canMarkBetWinLoss", "canMarkBetWinLossOwn"), bet,
                _get_user_aliases(profile))]

-----------------------------------------------------------------------------
(* Bets table (dynamodb.py).  An item and a request body are dicts over    *)
(* the same keys; the key attributes PK and SK are the item's userId and   *)
(* betId.                                                                  *)

EmptyItem ==
    [shape |-> "dict", userId |-> Absent, betId |-> Absent, type |-> Absent,
     status |-> Absent, date |-> Absent, amount |-> Absent,
     potentialPayout |-> Absent, createdAt |-> Absent, updatedAt |-> Absent,
     GSI1PK |-> Absent, GSI1SK |-> Absent, sport |-> Absent, teams |-> Absent,
     betType |-> Absent, selection |-> Absent, odds |-> Absent,
     attributedTo |-> Absent, featured |-> Absent, legs |-> LegsValue(Absent)]

ItemKeys == DOMAIN EmptyItem \ {"shape"}

\* f"{prefix}{value}"
KeyText(prefix, value) ==
    [k |-> "str", n |-> value.n,
     s |-> prefix \o (CASE value.k = "str" -> value.s
                        [] value.k \in {"absent", "null"} -> "None"
                        [] OTHER -> value.k)]

\* calculate_payout_from_odds, in hundredths
calculate_payout_from_odds(amount, odds) ==
    IF ~IsNumber(odds) \/ ~IsNumber(amount) THEN Raise("TypeError")
    ELSE IF odds.n > 0
    THEN Ok(DivRound(amount.n * odds.n, Hundred * Hundred) + amount.n)
    ELSE IF odds.n = 0 THEN Raise("ZeroDivisionError")
    ELSE Ok(DivRound(amount.n * Hundred * Hundred, Abs(odds.n)) + amount.n)

\* the decimal odds of one leg as calculate_parlay_payout computes them
LegDecimalOdds(odds) ==
    IF odds.n > 0
    THEN DivRound(odds.n * DecScale, Hundred * Hundred) + DecScale
    ELSE DivRound(Hundred * Hundred * DecScale, Abs(odds.n)) + DecScale

\* the product of the decimal odds of the first i legs
RECURSIVE CombinedDecimal(_, _)
CombinedDecimal(legs, i) ==
    IF i = 0 THEN DecScale
    ELSE DivRound(CombinedDecimal(legs, i - 1) * LegDecimalOdds(legs[i].odds),
                  DecScale)

\* what the loop over the legs does with leg i: "" when it gets past it
LegOddsFailure(leg) ==
    IF leg.shape # "dict" THEN "AttributeError"
    ELSE IF Get(leg.odds) = Null THEN "ValueError"
    ELSE IF ~IsNumber(leg.odds) THEN "TypeError"
    ELSE IF leg.odds.n = 0 THEN "ZeroDivisionError"
    ELSE ""

\* calculate_parlay_payout, in hundredths
calculate_parlay_payout(amount, legs) ==
    LET failing == {i \in 1..Len(legs) : LegOddsFailure(legs[i]) # ""}
    IN IF Len(legs) < 2 THEN Raise("ValueError")
       ELSE IF failing # {} THEN Raise(LegOddsFailure(legs[Min(failing)]))
       ELSE IF ~IsNumber(amount) THEN Raise("TypeError")
       ELSE Ok(DivRound(amount.n * CombinedDecimal(legs, Len(legs)), DecScale))

\* the payout create_bet computes first
CreatePayout(bet_data) ==
    IF bet_data.type = Str("single")
    THEN calculate_payout_from_odds(bet_data.amount, bet_data.odds)
    ELSE calculate_parlay_payout(bet_data.amount, bet_data.legs.items)

\* the item create_bet builds
NewItem(user_id, bet_data, bet_id, potential_payout, now) ==
    LET single == bet_data.type = Str("single")
        status == GetDefault(bet_data.status, Str("pending"))
        only(cond, value) == IF cond THEN value ELSE Absent
    IN [EmptyItem EXCEPT
           !.userId = Str(user_id), !.betId = bet_id,
           !.type = bet_data.type, !.status = status,
           !.date = bet_data.date, !.amount = bet_data.amount,
           !.potentialPayout = Num(potential_payout),
           !.createdAt = now, !.updatedAt = now,
           !.GSI1PK = KeyText("STATUS#", status),
           !.GSI1SK = KeyText("DATE#", bet_data.date),
           !.sport = only(single, bet_data.sport),
           !.teams = only(single, bet_data.teams),
           !.betType = only(single, bet_data.betType),
           !.selection = only(single, bet_data.selection),
           !.odds = only(single, bet_data.odds),
           !.legs = IF single THEN LegsValue(Absent) ELSE bet_data.legs,
           !.attributedTo = only(Truthy(bet_data.attributedTo),
                                 bet_data.attributedTo),
           !.featured = Bool(Truthy(bet_data.featured))]

\* float_to_decimal(item) raises decimal.InvalidOperation on a bool:
\* isinstance(True, int) holds and Decimal("True") is not a number
float_to_decimal(item) ==
    IF \E key \in ItemKeys : item[key].k = "bool"
    THEN [exc |-> "InvalidOperation", item |-> item]
    ELSE [exc |-> "", item |-> item]

\* create_bet: the item it puts, or the exception that keeps it from
\* putting one
create_bet(user_id, bet_data, bet_id, payout, now) ==
    IF payout.exc # "" THEN [exc |-> payout.exc, item |-> EmptyItem]
    ELSE float_to_decimal(NewItem(user_id, bet_data, bet_id, payout.v, now))

\* get_bet_by_id: the position of the item with that key, 0 for None
get_bet_by_id(items, user_id, bet_id) ==
    LET found == {i \in 1..Len(items) : /\ items[i].userId = Str(user_id)
                                         /\ items[i].betId = bet_id}
    IN IF found = {} THEN 0 ELSE Min(found)

\* the keys update_bet skips
ProtectedKeys == {"PK", "SK", "betId", "userId", "createdAt"}

\* SET #key = :key for a key of the updates
Assigned(updates, key, old) ==
    IF Has(updates[key]) /\ key \notin ProtectedKeys THEN updates[key] ELSE old

\* float_to_decimal(value) raises on a bool before anything is written
UpdateRaises(updates) ==
    \E key \in ItemKeys \ ProtectedKeys : updates[key].k = "bool"

\* update_bet: the item after update_item
update_bet(item, updates, now) ==
    IF \A key \in ItemKeys : ~Has(updates[key]) \/ key \in ProtectedKeys
    THEN item
    ELSE [item EXCEPT
             !.type = Assigned(updates, "type", @),
             !.status = Assigned(updates, "status", @),
             !.date = Assigned(updates, "date", @),
             !.amount = Assigned(updates, "amount", @),
             !.potentialPayout = Assigned(updates, "potentialPayout", @),
             !.sport = Assigned(updates, "sport", @),
             !.teams = Assigned(updates, "teams", @),
             !.betType = Assigned(updates, "betType", @),
             !.selection = Assigned(updates, "selection", @),
             !.odds = Assigned(updates, "odds", @),
             !.attributedTo = Assigned(updates, "attributedTo", @),
             !.featured = Assigned(updates, "featured", @),
             !.legs = Assigned(updates, "legs", @),
             !.GSI1SK = Assigned(updates, "GSI1SK", @),
             !.updatedAt = now,
             !.GSI1PK = IF Has(updates.status)
                        THEN KeyText("STATUS#", updates.status)
                        ELSE Assigned(updates, "GSI1PK", @)]

\* an update expression that sets one attribute twice is refused by the
\* table (ClientError), and update_bet returns None
UpdateRefused(updates) ==
    Has(updates.updatedAt) \/ (Has(updates.GSI1PK) /\ Has(updates.status))

-----------------------------------------------------------------------------
(* Request handlers (create_bet/lambda_function.py,                         *)
(* update_bet/lambda_function.py).                                          *)

Response(status, code) == [status |-> status, code |-> code]

\* create-bet lambda_handler, given the verdict of validate_bet on the body
\* and the outcome of create_bet
create_bet_response(user_id, body, v, created) ==
    IF user_id = "" THEN Response(401, "UNAUTHORIZED")
    ELSE IF body.shape = "notjson" THEN Response(400, "INVALID_JSON")
    ELSE IF v.exc # "" THEN Response(500, "INTERNAL_ERROR")
    ELSE IF ~v.ok THEN Response(400, "VALIDATION_ERROR")
    ELSE IF created.exc # "" THEN Response(500, "INTERNAL_ERROR")
    ELSE Response(201, "")

ValidStatuses == {Str("pending"), Str("won"), Str("lost")}

\* one of the fields compared at lines 85-88 differs
LegChanged(updated_leg, existing_leg) ==
    \E key \in {"teams", "sport", "betType", "selection", "odds", "attributedTo"} :
        Get(updated_leg[key]) # Get(existing_leg[key])

\* the first leg, in order, for which outcome is not "", and that outcome
FirstOutcome(outcomes) ==
    LET hit == {i \in 1..Len(outcomes) : outcomes[i] # ""}
    IN IF hit = {} THEN "" ELSE outcomes[Min(hit)]

\* lines 78-95 without the comparison of the fields: no payload is accepted
\* that holds a leg the caller may not edit
EditLegsCheck_AnyLeg(existing, updates, can_edit_legs) ==
    LET outcome(i) == IF can_edit_legs[i] THEN "" ELSE "FORBIDDEN"
    IN FirstOutcome([i \in 1..Len(updates.legs.items) |-> outcome(i)])

\* lines 78-95: the legs the caller may not edit must come back unchanged
EditLegsCheck(existing, updates, can_edit_legs) ==
    LET outcome(i) ==
            IF can_edit_legs[i] THEN ""
            ELSE IF updates.legs.items[i].shape # "dict" THEN "AttributeError"
            ELSE IF LegChanged(updates.legs.items[i], existing.legs.items[i])
            THEN "FORBIDDEN"
            ELSE ""
    IN FirstOutcome([i \in 1..Len(updates.legs.items) |-> outcome(i)])

\* "status" in updated_leg
StatusInLeg(leg) == leg.shape = "dict" /\ Has(leg.status)

\* lines 126-135: the statuses of the legs the caller may not mark must come
\* back unchanged
MarkLegsCheck(existing, updates, can_mark_legs) ==
    LET outcome(i) ==
            IF updates.legs.items[i].shape \in {"num", "null"} THEN "TypeError"
            ELSE IF ~StatusInLeg(updates.legs.items[i]) THEN ""
            ELSE IF i <= Len(can_mark_legs) /\ can_mark_legs[i] THEN ""
            ELSE IF updates.legs.items[i].status
                    # GetDefault(existing.legs.items[i].status, Str("pending"))
            THEN "FORBIDDEN"
            ELSE ""
    IN FirstOutcome([i \in 1..Len(updates.legs.items) |-> outcome(i)])

\* lines 153-164: every leg is an object with a valid status, if it has one
LegsValidation(updates) ==
    LET outcome(i) ==
            IF updates.legs.items[i].shape # "dict" THEN "INVALID_LEG"
            ELSE IF /\ Has(updates.legs.items[i].status)
                    /\ updates.legs.items[i].status \notin ValidStatuses
            THEN "INVALID_LEG_STATUS"
            ELSE ""
    IN FirstOutcome([i \in 1..Len(updates.legs.items) |-> outcome(i)])

\* lines 64-107 for a parlay whose update carries 'legs'
ParlayLegsResponse(existing, updates, can_edit_legs) ==
    IF updates.legs.k # "list" THEN Response(400, "INVALID_LEGS")
    ELSE IF Len(updates.legs.items) # Len(existing.legs.items)
    THEN Response(400, "INVALID_LEGS")
    ELSE IF EditLegsCheck(existing, updates, can_edit_legs) = "FORBIDDEN"
    THEN Response(403, "FORBIDDEN")
    ELSE IF EditLegsCheck(existing, updates, can_edit_legs) # ""
    THEN Response(500, "INTERNAL_ERROR")
    ELSE NoResponse

\* lines 109-135: the featured, status and leg status permissions
MarkResponse(existing, updates, win_loss_permissions, can_mark_featured) ==
    IF Has(updates.featured) /\ ~can_mark_featured
    THEN Response(403, "FORBIDDEN")
    ELSE IF Has(updates.status) /\ ~win_loss_permissions.can_mark_overall
    THEN Response(403, "FORBIDDEN")
    ELSE IF ~(Has(updates.legs) /\ IsParlay(existing)) THEN NoResponse
    ELSE IF MarkLegsCheck(existing, updates, win_loss_permissions.can_mark_legs)
            = "FORBIDDEN"
    THEN Response(403, "FORBIDDEN")
    ELSE IF MarkLegsCheck(existing, updates, win_loss_permissions.can_mark_legs)
            # ""
    THEN Response(500, "INTERNAL_ERROR")
    ELSE NoResponse

\* lines 166-172: the response after update_bet was called
UpdateResponse(updates) ==
    IF UpdateRaises(updates) THEN Response(500, "INTERNAL_ERROR")
    ELSE IF UpdateRefused(updates) THEN Response(500, "UPDATE_FAILED")
    ELSE Response(200, "")

\* ValidationResponse without the test of lines 138-143 on the bet status
ValidationResponse_AnyStatus(updates) ==
    IF ~Has(updates.legs) THEN UpdateResponse(updates)
    ELSE IF updates.legs.k # "list" THEN Response(400, "INVALID_LEGS")
    ELSE IF LegsValidation(updates) # ""
    THEN Response(400, LegsValidation(updates))
    ELSE UpdateResponse(updates)

\* lines 137-172: validation of the statuses and the legs, then update_bet
ValidationResponse(updates) ==
    IF Has(updates.status) /\ updates.status \notin ValidStatuses
    THEN Response(400, "INVALID_STATUS")
    ELSE IF ~Has(updates.legs) THEN UpdateResponse(updates)
    ELSE IF updates.legs.k # "list" THEN Response(400, "INVALID_LEGS")
    ELSE IF LegsValidation(updates) # ""
    THEN Response(400, LegsValidation(updates))
    ELSE UpdateResponse(updates)

\* the first of the responses that is one
Else(first, second) == IF first # NoResponse THEN first ELSE second

\* update-bet lambda_handler from line 51 on, the bet having been found
update_bet_response(existing, updates, edit_permissions, win_loss_permissions, can_mark_featured) ==
    IF updates.shape = "notjson" THEN Response(400, "INVALID_JSON")
    ELSE IF ~edit_permissions.can_edit_overall THEN Response(403, "FORBIDDEN")
    ELSE Else(IF IsParlay(existing) /\ Has(updates.legs)
              THEN ParlayLegsResponse(existing, updates,
                                      edit_permissions.can_edit_legs)
              ELSE NoResponse,
              Else(MarkResponse(existing, updates, win_loss_permissions,
                                can_mark_featured),
                   ValidationResponse(updates)))

-----------------------------------------------------------------------------
(* PUT /users/profile (update_user_profile/lambda_function.py,             *)
(* user_service.py).  A body is the set of its keys and their values.      *)

ProfileBody(keys, role, flags, aliases, email) ==
    [keys |-> keys, role |-> role, featureFlags |-> flags, aliases |-> aliases,
     email |-> email]

is_admin(profile) ==
    /\ get_user_profile(profile).exc = ""
    /\ get_user_profile(profile).v.exists
    /\ get_user_profile(profile).v.role = "admin"

create_user_profile(role) == UserProfile(role, get_default_feature_flags(role), {})

\* the profile lines 64-129 of the handler leave for the update: the one
\* found, or the one created with the role of the body
TargetProfile(target, body) ==
    IF target.exists THEN target
    ELSE create_user_profile(IF "role" \in body.keys THEN body.role ELSE "user")

\* user_service.update_user_profile sets featureFlags twice for a body with
\* 'role' and 'featureFlags'; the table refuses the expression (ClientError)
ProfileUpdateRefused(body) == {"role", "featureFlags"} \subseteq body.keys

\* user_service.update_user_profile: the item after update_item
update_user_profile(profile, body) ==
    [profile EXCEPT
        !.role = IF "role" \in body.keys THEN body.role ELSE @,
        !.featureFlags =
            IF "featureFlags" \in body.keys THEN body.featureFlags
            ELSE IF "role" \in body.keys THEN get_default_feature_flags(body.role)
            ELSE @,
        !.aliases = IF "aliases" \in body.keys THEN body.aliases ELSE @,
        !.keys = {"featureFlags", "aliases"}]

\* update-user-profile lambda_handler from line 36 on, for a signed-in caller
update_user_profile_response(caller, target, body) ==
    IF ~is_admin(caller) THEN Response(403, "FORBIDDEN")
    ELSE IF ~target.exists /\ ~body.email THEN Response(400, "EMAIL_REQUIRED")
    ELSE IF "aliases" \in body.keys /\ "" \in body.aliases
    THEN Response(400, "VALIDATION_ERROR")
    ELSE IF body.keys # {} /\ ProfileUpdateRefused(body)
    THEN Response(500, "UPDATE_FAILED")
    ELSE Response(200, "")

-----------------------------------------------------------------------------
(* The bet store as a state machine: create-bet and update-bet requests    *)
(* arrive, from signed-in users and from callers without a user id, on a   *)
(* table that outlives the handlers.                                       *)

\* datetime.utcnow().isoformat() + "Z" when the stored items were created
\* and when a request arrives
CreatedAt == Str("2025-01-15T12:00:00Z")
Instants == {Str("2025-01-16T09:30:00Z")}

StoredLegs ==
    <<[GoodLeg("Lakers vs Celtics", -110 * Hundred)
          EXCEPT !.id = Str("leg-1"), !.attributedTo = Str("Alice")],
      [GoodLeg("Jets vs Bills", -150 * Hundred)
          EXCEPT !.id = Str("leg-2"), !.attributedTo = Str("Bob")]>>

SingleBody(odds) ==
    [EmptyItem EXCEPT !.type = Str("single"), !.amount = Num(25 * Hundred),
                      !.date = Str("2025-01-15"), !.sport = Str("NFL"),
                      !.teams = Str("Jets vs Bills"), !.betType = Str("spread"),
                      !.selection = Str("Jets -3.5"), !.odds = odds,
                      !.attributedTo = Str("Alice")]

ParlayBody(legs) ==
    [EmptyItem EXCEPT !.type = Str("parlay"), !.amount = Num(25 * Hundred),
                      !.date = Str("2025-01-15"), !.legs = LegsList(legs),
                      !.attributedTo = Str("Alice")]

\* the bodies of the create-bet requests
CreateBodies ==
    { [EmptyItem EXCEPT !.shape = "notjson"],
      SingleBody(Num(-110 * Hundred)), SingleBody(Num(0)), SingleBody(Null),
      [SingleBody(Num(200 * Hundred)) EXCEPT !.featured = Bool(TRUE)],
      [SingleBody(Num(-110 * Hundred)) EXCEPT !.potentialPayout = Num(Hundred)],
      [SingleBody(Num(-110 * Hundred)) EXCEPT !.status = Str("void")],
      ParlayBody([StoredLegs EXCEPT ![1].status = Str("void")]),
      [SingleBody(Num(-110 * Hundred)) EXCEPT !.date = Null],
      ParlayBody(StoredLegs),
      ParlayBody([StoredLegs EXCEPT ![1].odds = Num(0)]),
      ParlayBody([StoredLegs EXCEPT ![2].odds = Null]),
      ParlayBody(SubSeq(StoredLegs, 1, 1)) }

\* an item of the table, laid out as create_bet lays it out (lines 87-124)
StoredItem(user_id, bet_data, serial) ==
    [NewItem(user_id, bet_data, Uuid(serial), CreatePayout(bet_data).v, CreatedAt)
        EXCEPT !.featured = Bool(FALSE)]

\* the tables the handlers start on: no more than MaxStored valid bets with
\* resolved odds
StoredTables ==
    LET bodies == {SingleBody(Num(-110 * Hundred)), ParlayBody(StoredLegs),
                   [ParlayBody(StoredLegs) EXCEPT !.attributedTo = Str("Bob")]}
        choices == SeqsUpTo(Users \X bodies, MaxStored)
    IN { [i \in 1..Len(q) |-> StoredItem(q[i][1], q[i][2], i)] : q \in choices }

Administrator == UserProfile("admin", get_default_feature_flags("admin"), {})

\* the profiles of the user whose profile the requests change
ProfilePool ==
    { NoProfile,
      UserProfile("user", get_default_feature_flags("user"), {}),
      Administrator,
      UserProfile("user", {"canCreateBets", "canEditBetsOwn",
                           "canMarkBetWinLossOwn"}, {"Alice"}),
      UserProfile("user", {"canCreateBets", "canEditBetsOwn"}, {"Alice"}) }

\* the bodies of the update-user-profile requests
ProfileBodies ==
    { ProfileBody({}, "", {}, {}, FALSE),
      ProfileBody({"role"}, "admin", {}, {}, TRUE),
      ProfileBody({"role"}, "user", {}, {}, FALSE),
      ProfileBody({"featureFlags", "aliases"}, "",
                  {"canCreateBets", "canEditBetsOwn", "canMarkBetWinLossOwn"},
                  {"Alice"}, TRUE),
      ProfileBody({"featureFlags"}, "", {"canCreateBets", "canEditBetsOwn"}, {},
                  FALSE),
      ProfileBody({"role", "featureFlags"}, "admin", {"canEditBets"}, {}, TRUE),
      ProfileBody({"aliases"}, "", {}, {""}, TRUE) }

\* the 'legs' payloads of the update-bet requests
LegsPayloads ==
    { LegsValue(Str("two legs")),
      LegsList(StoredLegs),
      LegsList(SubSeq(StoredLegs, 1, 1)),
      LegsList([StoredLegs EXCEPT ![2].selection = Str("Bills +3.5")]),
      LegsList([StoredLegs EXCEPT ![1].status = Str("won")]),
      LegsList([StoredLegs EXCEPT ![2].status = Str("won")]),
      LegsList([StoredLegs EXCEPT ![2].status = Str("void")]) }

\* the bodies of the update-bet requests
UpdateBodies ==
    { [EmptyItem EXCEPT !.shape = "notjson"],
      EmptyItem,
      [EmptyItem EXCEPT !.odds = Num(0)],
      [EmptyItem EXCEPT !.status = Str("won")],
      [EmptyItem EXCEPT !.status = Str("void")],
      [EmptyItem EXCEPT !.featured = Bool(TRUE)],
      [EmptyItem EXCEPT !.type = Str("single")],
      [EmptyItem EXCEPT !.userId = Str("u2"), !.createdAt = Str("2020-01-01")] }
    \cup { [EmptyItem EXCEPT !.legs = payload] : payload \in LegsPayloads }

StoreInit ==
    /\ table \in StoredTables
    /\ profiles \in { [u \in Users |-> IF u = "u1" THEN p ELSE Administrator] :
                         p \in ProfilePool }
    /\ response = NoResponse
    /\ model_output = JsonText("dict", LegsValue(Absent)) /\ parsed = NotCalled
    /\ raw = EmptyItem /\ normalized = NoOutcome
    /\ data = EmptyItem /\ verdict = NoVerdict

\* POST /bets
CreateBet ==
    /\ Len(table) < MaxStored
    /\ \E user_id \in Users \cup {""}, body \in CreateBodies, now \in Instants :
          /\ response' =
                create_bet_response(user_id, body, validate_bet(body),
                    create_bet(user_id, validate_bet_effect(body, validate_bet(body)),
                               Uuid(Len(table) + 1), CreatePayout(body), now))
          /\ table' =
                IF response'.status = 201
                THEN Append(table,
                        create_bet(user_id,
                                   validate_bet_effect(body, validate_bet(body)),
                                   Uuid(Len(table) + 1), CreatePayout(body),
                                   now).item)
                ELSE table
          /\ data' = body
    /\ raw' = EmptyItem
    /\ UNCHANGED <<model_output, parsed, normalized, verdict, profiles>>

\* PUT /bets/{betId} from a caller without a user id, or for a bet the
\* caller's partition does not hold
UpdateBetNotFound ==
    /\ \E user_id \in Users \cup {""}, bet_id \in 1..MaxStored :
          /\ user_id = "" \/ get_bet_by_id(table, user_id, Uuid(bet_id)) = 0
          /\ response' = IF user_id = "" THEN Response(401, "UNAUTHORIZED")
                         ELSE Response(404, "BET_NOT_FOUND")
    /\ raw' = EmptyItem /\ data' = EmptyItem
    /\ UNCHANGED <<model_output, parsed, normalized, verdict, table, profiles>>

\* PUT /bets/{betId} for a bet of the caller's
UpdateBet ==
    /\ \E i \in 1..Len(table), now \in Instants :
          \E updates \in UpdateBodies :
             /\ response' =
                   update_bet_response(
                       table[i], updates,
                       check_can_edit_bet(profiles[table[i].userId.s], table[i]),
                       check_can_mark_win_loss(profiles[table[i].userId.s], table[i]),
                       check_can_mark_featured(profiles[table[i].userId.s],
                                               table[i]).can_mark_featured)
             /\ table' = IF response'.status = 200
                         THEN [table EXCEPT ![i] = update_bet(@, updates, now)]
                         ELSE table
             /\ raw' = table[i] /\ data' = updates
    /\ UNCHANGED <<model_output, parsed, normalized, verdict, profiles>>

\* PUT /users/profile
UpdateUserProfile ==
    /\ \E user_id \in Users, target_user_id \in {"u1"}, body \in ProfileBodies :
          /\ response' = update_user_profile_response(
                             profiles[user_id], profiles[target_user_id], body)
          /\ profiles' =
                IF response'.status = 200
                THEN [profiles EXCEPT ![target_user_id] =
                         update_user_profile(TargetProfile(@, body), body)]
                ELSE profiles
          /\ profiles'[target_user_id] \in ProfilePool
    /\ raw' = EmptyItem /\ data' = EmptyItem
    /\ UNCHANGED <<model_output, parsed, normalized, verdict, table>>

StoreNext == CreateBet \/ UpdateBetNotFound \/ UpdateBet \/ UpdateUserProfile

SpecStore == StoreInit /\ [][StoreNext]_vars

\* the odds are zero or null
ZeroOrNull(odds) == Get(odds) = Null \/ IsZero(odds)

\* C8: after any sequence of create-bet and update-bet requests no stored
\* single bet and no leg of a stored parlay has odds that are zero or null;
\* a request that would store such odds is rejected.
C8_NoStoredZeroOrNullOdds ==
    \A i \in 1..Len(table) :
        /\ table[i].type = Str("single") => ~ZeroOrNull(table[i].odds)
        /\ \A j \in 1..Len(table[i].legs.items) :
              ~ZeroOrNull(table[i].legs.items[j].odds)

-----------------------------------------------------------------------------
(* GET /bets (get_bets/lambda_function.py, dynamodb.py).                    *)

\* where a date text stands in the order of str: the texts "2025-01-DD" in
\* the order of DD, and after all of them the texts that have a digit other
\* than "0" in their sixth place
TextOrder(text) ==
    IF \E day \in JanuaryDays : text = Strftime(day)
    THEN CHOOSE day \in JanuaryDays : text = Strftime(day)
    ELSE 31 + 1

\* a >= b for two str
TextGeq(a, b) == TextOrder(a.s) >= TextOrder(b.s)

\* the query string parameters of a list request
Query(status, start_date, end_date, bet_type) ==
    [status |-> status, start_date |-> start_date, end_date |-> end_date,
     bet_type |-> bet_type]

\* bet.pop of the key attributes, decimal_to_float (a number of the model
\* is the same number as a Decimal and as a float)
decimal_to_float(bet) == [bet EXCEPT !.GSI1PK = Absent, !.GSI1SK = Absent]

\* the date filters compare b.get("date") with a str, which raises for a
\* date that is no str
DateFilterRaises(bets, start_date, end_date) ==
    /\ Truthy(start_date) \/ Truthy(end_date)
    /\ \E i \in 1..Len(bets) : bets[i].date.k # "str"

\* the filters of get_all_bets and get_bets_by_user on the items read
FilterBets(bets, query) ==
    LET keep(b) ==
            /\ Truthy(query.status) => Get(b.status) = query.status
            /\ Truthy(query.bet_type) => Get(b.type) = query.bet_type
            /\ Truthy(query.start_date) => TextGeq(b.date, query.start_date)
            /\ Truthy(query.end_date) => TextGeq(query.end_date, b.date)
    IN IF DateFilterRaises(bets, query.start_date, query.end_date)
       THEN Raise("TypeError")
       ELSE Ok([i \in 1..Len(SelectSeq(bets, keep)) |->
                   decimal_to_float(SelectSeq(bets, keep)[i])])

\* get_all_bets: a scan of the table
get_all_bets(items, query) == FilterBets(items, query)

\* get_bets_by_user: a query of the partition of the user
get_bets_by_user(items, user_id, query) ==
    LET mine(b) == b.userId = Str(user_id)
    IN FilterBets(SelectSeq(items, mine), query)

_is_bet_visible_to_user(bet, user_aliases) ==
    IF user_aliases = {} THEN FALSE
    ELSE IF IsSingle(bet)
    THEN _is_attributed_to_user(Get(bet.attributedTo), user_aliases)
    ELSE \/ _is_attributed_to_user(Get(bet.attributedTo), user_aliases)
         \/ \E j \in 1..Len(bet.legs.items) :
               _is_attributed_to_user(Get(bet.legs.items[j].attributedTo),
                                      user_aliases)

\* lines 73-88 of the handler without the filter on userId
OwnBets_AnyUser(bets, user_id, user_aliases) ==
    LET visible(b) == _is_bet_visible_to_user(b, user_aliases)
    IN SelectSeq(bets, visible)

\* lines 73-88 of the handler: the caller's bets that are visible to it
OwnBets(bets, user_id, user_aliases) ==
    LET visible(b) == /\ Get(b.userId) = Str(user_id)
                      /\ _is_bet_visible_to_user(b, user_aliases)
    IN SelectSeq(bets, visible)

ListResponse(status, bets) == [status |-> status, bets |-> bets]

\* get-bets lambda_handler from line 34 on
get_bets_response(user_id, profile, items, query) ==
    IF get_all_bets(items, query).exc # "" THEN ListResponse(500, <<>>)
    ELSE IF user_id = "" THEN ListResponse(200, get_all_bets(items, query).v)
    ELSE IF check_can_see_manage_bets_page(profile).exc # ""
    THEN ListResponse(500, <<>>)
    ELSE IF ~check_can_see_manage_bets_page(profile).can_see
    THEN ListResponse(403, <<>>)
    ELSE IF check_feature_flag(profile, "seeManageBetsPage").v
    THEN ListResponse(200, get_all_bets(items, query).v)
    ELSE ListResponse(200, OwnBets(get_all_bets(items, query).v, user_id,
                                   _get_user_aliases(profile)))

-----------------------------------------------------------------------------
(* The permission checks as a state machine: on a table of stored bets and *)
(* the profiles of the Users table, a caller asks for one check or for the *)
(* list of the bets; the checks read and write nothing, so one question    *)
(* per behaviour shows all they do.                                        *)

Attributions == {Absent, Str("Alice"), Str("Bob"), Str("alice")}

\* the bets the checks are asked about: single bets and two-leg parlays,
\* attributed at the level of the bet and of each leg
PermissionBets ==
    { [SingleBody(Num(-110 * Hundred)) EXCEPT !.attributedTo = a] :
         a \in Attributions }
    \cup { [ParlayBody([StoredLegs EXCEPT ![1].attributedTo = legs[1],
                                          ![2].attributedTo = legs[2]])
               EXCEPT !.attributedTo = a] :
              a \in {Absent, Str("Alice"), Str("Bob")},
              legs \in {Absent, Str("Alice"), Str("Bob")}
                          \X {Str("Alice"), Str("Bob")} }

PermissionTables ==
    { <<StoredItem(user_id, bet_data, 1)>> :
         user_id \in Users, bet_data \in PermissionBets }

OwnFlags == {"seeManageBetsPageOwn", "canEditBetsOwn", "canMarkBetFeaturesOwn",
             "canMarkBetWinLossOwn"}

\* the profiles of the caller
PermissionProfiles ==
    { UserProfile("user", flags, aliases) :
         flags \in { get_default_feature_flags("user"),
                     get_default_feature_flags("admin"),
                     OwnFlags, OwnFlags \cup {"canEditBets"} },
         aliases \in { {}, {"Alice"}, {"alice"} } }
    \cup { NoProfile,
           [UserProfile("admin", get_default_feature_flags("admin"), {"Alice"})
               EXCEPT !.lookup = "ClientError"],
           [UserProfile("admin", get_default_feature_flags("admin"), {"Alice"})
               EXCEPT !.lookup = "BotoCoreError"],
           [UserProfile("admin", {}, {"Alice"}) EXCEPT !.keys = {"aliases"}],
           [UserProfile("admin", get_default_feature_flags("admin"), {})
               EXCEPT !.keys = {"featureFlags"}],
           [UserProfile("user", OwnFlags, {}) EXCEPT !.keys = {"featureFlags"}] }

Queries ==
    { Query(Null, Null, Null, Null),
      Query(Str("won"), Null, Null, Null),
      Query(Null, Str("2025-01-16"), Null, Null),
      Query(Str("pending"), Str("2025-01-13"), Str("2025-01-19"), Str("parlay")) }

\* what a check answered to whom
Answer(check, user_id, exc, overall, legs) ==
    [check |-> check, user_id |-> user_id, exc |-> exc, overall |-> overall,
     legs |-> legs, status |-> 0, bets |-> <<>>,
     query |-> Query(Null, Null, Null, Null)]

\* the profile the lookup of the caller meets; the public has none
ProfileOf(users, user_id) == IF user_id = "" THEN NoProfile ELSE users[user_id]

NotAsked == Answer("", "", "", FALSE, <<>>)

PermissionInit ==
    /\ table \in PermissionTables
    /\ profiles \in { [u \in Users |-> IF u = "u1" THEN p ELSE NoProfile] :
                         p \in PermissionProfiles }
    /\ response = NotAsked
    /\ model_output = JsonText("dict", LegsValue(Absent)) /\ parsed = NotCalled
    /\ raw = EmptyBet /\ normalized = NoOutcome
    /\ data = EmptyBet /\ verdict = NoVerdict

CanSeeManageBetsPage ==
    /\ response = NotAsked
    /\ \E user_id \in Users :
          response' =
             Answer("see", user_id,
                    check_can_see_manage_bets_page(profiles[user_id]).exc,
                    check_can_see_manage_bets_page(profiles[user_id]).can_see,
                    <<>>)
    /\ UNCHANGED <<model_output, parsed, raw, normalized, data, verdict, table,
                   profiles>>

CanEditBet ==
    /\ response = NotAsked
    /\ \E user_id \in Users :
          response' =
             Answer("edit", user_id,
                    check_can_edit_bet(profiles[user_id], table[1]).exc,
                    check_can_edit_bet(profiles[user_id], table[1]).can_edit_overall,
                    check_can_edit_bet(profiles[user_id], table[1]).can_edit_legs)
    /\ UNCHANGED <<model_output, parsed, raw, normalized, data, verdict, table,
                   profiles>>

CanMarkWinLoss ==
    /\ response = NotAsked
    /\ \E user_id \in Users :
          response' =
             Answer("mark", user_id,
                    check_can_mark_win_loss(profiles[user_id], table[1]).exc,
                    check_can_mark_win_loss(profiles[user_id], table[1]).can_mark_overall,
                    check_can_mark_win_loss(profiles[user_id], table[1]).can_mark_legs)
    /\ UNCHANGED <<model_output, parsed, raw, normalized, data, verdict, table,
                   profiles>>

CanMarkFeatured ==
    /\ response = NotAsked
    /\ \E user_id \in Users :
          response' =
             Answer("featured", user_id,
                    check_can_mark_featured(profiles[user_id], table[1]).exc,
                    check_can_mark_featured(profiles[user_id], table[1]).can_mark_featured,
                    <<>>)
    /\ UNCHANGED <<model_output, parsed, raw, normalized, data, verdict, table,
                   profiles>>

\* GET /bets, from a signed-in user or from the public
GetBets ==
    /\ response = NotAsked
    /\ \E user_id \in Users \cup {""}, query \in Queries :
          response' =
             [Answer("list", user_id, "", FALSE, <<>>) EXCEPT
                 !.status = get_bets_response(user_id, ProfileOf(profiles, user_id),
                                              table, query).status,
                 !.bets = get_bets_response(user_id, ProfileOf(profiles, user_id),
                                            table, query).bets,
                 !.query = query]
    /\ UNCHANGED <<model_output, parsed, raw, normalized, data, verdict, table,
                   profiles>>

PermissionNext ==
    CanSeeManageBetsPage \/ CanEditBet \/ CanMarkWinLoss \/ CanMarkFeatured
        \/ GetBets

SpecPermission == PermissionInit /\ [][PermissionNext]_vars

\* the profile of the caller holds the flag
Holds(profile, flag_name) ==
    /\ profile.exists /\ profile.lookup = "Item"
    /\ "featureFlags" \in profile.keys /\ flag_name \in profile.featureFlags

\* the alias list of the caller
AliasList(profile) ==
    IF profile.exists /\ profile.lookup = "Item" /\ "aliases" \in profile.keys
    THEN profile.aliases ELSE {}

\* the attributedTo of a bet or a leg is a member of the alias list
Member(d, profile) ==
    d.attributedTo.k = "str" /\ d.attributedTo.s \in AliasList(profile)

GlobalFlag(check) ==
    CASE check = "edit" -> "canEditBets"
      [] check = "mark" -> "canMarkBetWinLoss"
      [] check = "featured" -> "canMarkBetFeatures"
      [] OTHER -> "seeManageBetsPage"

\* what C11 expects for a bet or a leg d
Expected(check, profile, d) ==
    \/ Holds(profile, GlobalFlag(check))
    \/ Holds(profile, GlobalFlag(check) \o "Own") /\ Member(d, profile)

\* C11: the edit and mark-result checks answer true overall and for every
\* leg under the global flag, false overall and for every leg without the
\* global and the own-scope flag, and otherwise true exactly where the
\* attributedTo of the bet, or of the leg, is an exact member of the alias
\* list; for a parlay the leg vector has one entry per leg.
C11_PermissionFollowsFlagsAndAliases ==
    response.check \in {"edit", "mark"} =>
        /\ response.overall
              = Expected(response.check, profiles[response.user_id], table[1])
        /\ IsParlay(table[1]) =>
              /\ Len(response.legs) = Len(table[1].legs.items)
              /\ \A j \in 1..Len(table[1].legs.items) :
                    response.legs[j]
                       = Expected(response.check, profiles[response.user_id],
                                  table[1].legs.items[j])

\* an own-scope caller was answered for a parlay of which it may edit one
\* leg and not the other, nor the bet
C11_Witness ==
    /\ response.check = "edit"
    /\ ~Holds(profiles[response.user_id], "canEditBets")
    /\ Holds(profiles[response.user_id], "canEditBetsOwn")
    /\ IsParlay(table[1])
    /\ ~response.overall
    /\ response.legs = <<TRUE, FALSE>>

\* the last request was a list request from a caller that holds
\* seeManageBetsPageOwn and not seeManageBetsPage
OwnScopeList ==
    /\ response.check = "list" /\ response.user_id # ""
    /\ ~Holds(profiles[response.user_id], "seeManageBetsPage")
    /\ Holds(profiles[response.user_id], "seeManageBetsPageOwn")

\* the stored bet passes the filters of the query
MatchesQuery(bet, query) ==
    /\ Truthy(query.status) => bet.status = query.status
    /\ Truthy(query.bet_type) => bet.type = query.bet_type
    /\ Truthy(query.start_date) => TextGeq(bet.date, query.start_date)
    /\ Truthy(query.end_date) => TextGeq(query.end_date, bet.date)

\* the attribution of the bet matches the caller
AttributionMatches(bet, profile) ==
    \/ Member(bet, profile)
    \/ /\ bet.type = Str("parlay")
       /\ \E j \in 1..Len(bet.legs.items) : Member(bet.legs.items[j], profile)

\* the response lists the bet
Returned(bet) == \E k \in 1..Len(response.bets) : response.bets[k].betId = bet.betId

\* C14: for a caller that lacks seeManageBetsPage and holds
\* seeManageBetsPageOwn, the list endpoint returns a stored bet that matches
\* the query filters if and only if its attributedTo (single), or its
\* parlay-level attributedTo or the attributedTo of one of its legs
\* (parlay), is an exact member of the caller's alias list.
C14_OwnScopeListIsByAttribution ==
    OwnScopeList =>
        \A i \in 1..Len(table) :
            MatchesQuery(table[i], response.query) =>
                (Returned(table[i])
                    <=> AttributionMatches(table[i], profiles[response.user_id]))

\* the last request was one of the four permission checks
Checked == response.check \in {"see", "edit", "mark", "featured"}

\* the check found no feature flags: no profile, a failed lookup, or a
\* profile without the featureFlags key
NoFlags(profile) ==
    ~profile.exists \/ profile.lookup # "Item" \/ "featureFlags" \notin profile.keys

\* the profile is there and has no alias list
NoAliasList(profile) ==
    profile.exists /\ profile.lookup = "Item" /\ "aliases" \notin profile.keys

\* false, or false overall with an all-false leg vector
Denied ==
    /\ ~response.overall
    /\ \A j \in 1..Len(response.legs) : ~response.legs[j]
    /\ (response.check \in {"edit", "mark"} /\ IsParlay(table[1])) =>
          Len(response.legs) = Len(table[1].legs.items)

\* C15 as stated: the permission checks never raise, and when the caller's
\* profile, feature flags or alias list is absent, or the lookup of the
\* profile fails, each check returns a deny result.
C15_AbsentDataDenies ==
    Checked =>
        /\ response.exc = ""
        /\ (NoFlags(profiles[response.user_id])
               \/ NoAliasList(profiles[response.user_id])) => Denied

\* C15 amended: the permission checks never raise; when the caller's
\* profile or feature flags are absent, or the lookup of the profile fails,
\* each check returns a deny result; when only the alias list is absent no
\* attribution matches, and each check returns what the flags alone give.
C15_AbsentDataNeverRaises ==
    Checked =>
        /\ response.exc = ""
        /\ NoFlags(profiles[response.user_id]) => Denied
        /\ NoAliasList(profiles[response.user_id]) =>
              /\ response.overall =
                    \/ Holds(profiles[response.user_id], GlobalFlag(response.check))
                    \/ /\ response.check = "see"
                       /\ Holds(profiles[response.user_id], "seeManageBetsPageOwn")
              /\ \A j \in 1..Len(response.legs) :
                    response.legs[j]
                       = Holds(profiles[response.user_id], GlobalFlag(response.check))

\* the lookup of the profile failed with an exception that is no
\* ClientError, and the edit check of a parlay answered false throughout
C15_Witness ==
    /\ response.check = "edit" /\ response.exc = ""
    /\ profiles[response.user_id].lookup = "BotoCoreError"
    /\ IsParlay(table[1])
    /\ ~response.overall /\ response.legs = <<FALSE, FALSE>>

-----------------------------------------------------------------------------
(* Properties of the bet store.                                            *)

\* the last request was an update-bet request that found its bet
UpdateFound == raw.betId # Absent

\* the stored bet the last update-bet request was about
Stored == table[get_bet_by_id(table, raw.userId.s, raw.betId)]

\* the status of a leg as read back
LegStatus(leg) == GetDefault(leg.status, Str("pending"))

\* C12: in every accepted update of a parlay, the fields of leg i that the
\* edit check compares are unchanged unless can_edit_legs[i], the status of
\* leg i as read back is unchanged unless can_mark_legs[i], the status of
\* the bet is unchanged unless can_mark_overall, and the featured flag is
\* unchanged unless the mark-featured check allows it.
C12_OnlyPermittedChangesPersist ==
    (UpdateFound /\ response.status = 200 /\ IsParlay(raw)) =>
        /\ \A j \in 1..Len(raw.legs.items) :
              j <= Len(Stored.legs.items) =>
                 /\ check_can_edit_bet(profiles[raw.userId.s], raw).can_edit_legs[j]
                       \/ ~LegChanged(Stored.legs.items[j], raw.legs.items[j])
                 /\ check_can_mark_win_loss(profiles[raw.userId.s], raw).can_mark_legs[j]
                       \/ LegStatus(Stored.legs.items[j]) = LegStatus(raw.legs.items[j])
        /\ check_can_mark_win_loss(profiles[raw.userId.s], raw).can_mark_overall
              \/ Stored.status = raw.status
        /\ check_can_mark_featured(profiles[raw.userId.s], raw).can_mark_featured
              \/ Stored.featured = raw.featured

\* the caller's only edit flag is canEditBetsOwn and its alias list is
\* ["Alice"]
OwnAliceEditor(profile) ==
    /\ Holds(profile, "canEditBetsOwn") /\ ~Holds(profile, "canEditBets")
    /\ AliasList(profile) = {"Alice"}

\* the last request was an update of a parlay, from such a caller, whose
\* body has 'legs', a list with one payload leg per stored leg, and no
\* other key
LegsRequest ==
    /\ UpdateFound /\ IsParlay(raw) /\ OwnAliceEditor(profiles[raw.userId.s])
    /\ data.legs.k = "list" /\ Len(data.legs.items) = Len(raw.legs.items)
    /\ \A key \in ItemKeys \ {"legs"} : ~Has(data[key])

\* the legs of the stored parlay attributed to "Bob"
BobLegs == {j \in 1..Len(raw.legs.items) : raw.legs.items[j].attributedTo = Str("Bob")}

\* the payload leaves every field of leg j unchanged
LeavesUnchanged(j) ==
    /\ ~LegChanged(data.legs.items[j], raw.legs.items[j])
    /\ LegStatus(data.legs.items[j]) = LegStatus(raw.legs.items[j])

\* the payload changes the selection of leg j
ChangesSelection(j) ==
    Get(data.legs.items[j].selection) # Get(raw.legs.items[j].selection)

\* a request that changes the selection of a leg attributed to "Bob" is
\* answered Forbidden and stores nothing
BobSelectionChangeIsDenied ==
    (LegsRequest /\ \E j \in BobLegs : ChangesSelection(j)) =>
        response.status = 403 /\ Stored = raw

C16_UpdatesKeepTheNumberOfLegs ==
    (UpdateFound /\ response.status = 200) =>
        Len(Stored.legs.items) = Len(raw.legs.items)

\* the last request was a create-bet request of a signed-in user
CreateRequested == raw = EmptyItem /\ data # EmptyItem /\ response.status # 401

\* the body of the create-bet request passes validate_bet and has odds the
\* payout formula is defined for
Creatable(body) ==
    /\ body.shape = "dict"
    /\ validate_bet(body).exc = "" /\ validate_bet(body).ok
    /\ CreatePayout(body).exc = ""

-----------------------------------------------------------------------------
(* DELETE /bets/week/clear (clear_week/lambda_function.py, dynamodb.py,     *)
(* week_utils.py).  A day of January 2025 is its day of the month.         *)

\* number of bets a table of the clear-week requests holds
MaxWeekBets == 2

\* date(2025, 1, day).weekday(): 6 January 2025 is a Monday
Weekday(day) == (day + 1) % 7

\* get_current_week_range: the Monday and the Sunday of the week of today
get_current_week_range(today) ==
    LET week_start == today - Weekday(today)
    IN <<week_start, week_start + 6>>

\* get_bets_by_week: the bets of the user between the two strftime texts
get_bets_by_week(items, user_id, today) ==
    LET start_date == Str(Strftime(get_current_week_range(today)[1]))
        end_date == Str(Strftime(get_current_week_range(today)[2]))
    IN get_bets_by_user(items, user_id, Query(Null, start_date, end_date, Null))

\* delete_bet: delete_item on the key of the bet
delete_bet(items, user_id, bet_id) ==
    LET other(b) == ~(b.userId = Str(user_id) /\ b.betId = bet_id)
    IN SelectSeq(items, other)

\* the loop of delete_bets_by_week over the bets read
RECURSIVE DeleteLoop(_, _, _)
DeleteLoop(items, user_id, bets) ==
    IF bets = <<>> THEN [exc |-> "", items |-> items, deleted_count |-> 0]
    ELSE LET rest == DeleteLoop(delete_bet(items, user_id, Head(bets).betId),
                                user_id, Tail(bets))
         IN [rest EXCEPT !.deleted_count = @ + 1]

\* delete_bets_by_week: the table after it and the count it returns, or the
\* exception of get_bets_by_week
delete_bets_by_week(items, user_id, today) ==
    IF get_bets_by_week(items, user_id, today).exc # ""
    THEN [exc |-> get_bets_by_week(items, user_id, today).exc,
          items |-> items, deleted_count |-> 0]
    ELSE DeleteLoop(items, user_id, get_bets_by_week(items, user_id, today).v)

WeekResponse(status, code, deleted_count) ==
    [status |-> status, code |-> code, deletedCount |-> deleted_count]

\* clear-week lambda_handler from line 28 on
clear_week_response(user_id, cleared) ==
    IF user_id = "" THEN WeekResponse(401, "UNAUTHORIZED", 0)
    ELSE IF cleared.exc # "" THEN WeekResponse(500, "INTERNAL_ERROR", 0)
    ELSE WeekResponse(200, "", cleared.deleted_count)

\* a request: the handler asked, the caller and the day datetime.now() gives
WeekRequest(request, user_id, today) ==
    [request |-> request, user_id |-> user_id, today |-> today]

\* the days the stored bets are dated: the Sunday before a week, its Monday,
\* its Sunday and the Monday after it
StoredDays == {12, 13, 19, 20}

\* the days the clear-week requests arrive
Todays == {12, 13, 15, 19, 20}

\* the tables the clear-week requests start on
WeekTables ==
    LET body(day) == [SingleBody(Num(-110 * Hundred)) EXCEPT
                         !.date = Str(Strftime(day))]
        choices == SeqsUpTo(Users \X StoredDays, MaxWeekBets)
    IN { [i \in 1..Len(q) |-> StoredItem(q[i][1], body(q[i][2]), i)] :
            q \in choices }

\* the bodies of the update-bet requests that change the date of a bet
DateBodies ==
    { [EmptyItem EXCEPT !.date = Str(Strftime(15))],
      [EmptyItem EXCEPT !.date = Str("2025-1-15")],
      [EmptyItem EXCEPT !.date = Null] }

WeekInit ==
    /\ table \in WeekTables
    /\ profiles = [u \in Users |-> Administrator]
    /\ response = NoResponse
    /\ model_output = JsonText("dict", LegsValue(Absent)) /\ parsed = NotCalled
    /\ raw = EmptyItem /\ normalized = NoOutcome
    /\ data = WeekRequest("", "", 0) /\ verdict = NoVerdict

\* DELETE /bets/week/clear
ClearWeek ==
    /\ \E user_id \in Users \cup {""}, today \in Todays :
          /\ response' = clear_week_response(
                             user_id, delete_bets_by_week(table, user_id, today))
          /\ table' = IF response'.status = 200
                      THEN delete_bets_by_week(table, user_id, today).items
                      ELSE table
          /\ data' = WeekRequest("clear_week", user_id, today)
    /\ UNCHANGED <<model_output, parsed, raw, normalized, verdict, profiles>>

\* PUT /bets/{betId} with a new date, for a bet of the caller's
UpdateBetDate ==
    /\ \E i \in 1..Len(table), now \in Instants, updates \in DateBodies :
          /\ response' =
                update_bet_response(
                    table[i], updates,
                    check_can_edit_bet(profiles[table[i].userId.s], table[i]),
                    check_can_mark_win_loss(profiles[table[i].userId.s], table[i]),
                    check_can_mark_featured(profiles[table[i].userId.s],
                                            table[i]).can_mark_featured)
          /\ table' = IF response'.status = 200
                      THEN [table EXCEPT ![i] = update_bet(@, updates, now)]
                      ELSE table
          /\ data' = WeekRequest("update_bet", table[i].userId.s, 0)
    /\ UNCHANGED <<model_output, parsed, raw, normalized, verdict, profiles>>

WeekNext == ClearWeek \/ UpdateBetDate

SpecWeek == WeekInit /\ [][WeekNext]_vars

\* the date of the bet is a day of the Monday-to-Sunday week of today
InWeek(bet, today) ==
    /\ Strptime(bet.date) = ""
    /\ DateFields(bet.date.s)[1] = 2025 /\ DateFields(bet.date.s)[2] = 1
    /\ DateFields(bet.date.s)[3] >= get_current_week_range(today)[1]
    /\ DateFields(bet.date.s)[3] <= get_current_week_range(today)[2]

\* the stored bets other than those of the user dated in the week of today
OutsideWeek(items, user_id, today) ==
    LET other(b) == ~(b.userId = Str(user_id) /\ InWeek(b, today))
    IN SelectSeq(items, other)

\* C19: the clear-current-week operation deletes exactly the calling user's
\* bets whose date lies in the current Monday-to-Sunday week, leaves every
\* other stored bet unchanged, and returns the number of bets it deleted.
C19_ClearWeekDeletesTheWeekOfTheCaller ==
    [][(data'.request = "clear_week" /\ data'.user_id # "") =>
          /\ table' = OutsideWeek(table, data'.user_id, data'.today)
          /\ response'.status = 200
          /\ response'.deletedCount = Len(table) - Len(table')]_vars

-----------------------------------------------------------------------------
(* The odds conversions as a state machine: American odds arrive and are   *)
(* converted to decimal odds; decimal odds, those among them, are          *)
(* converted to American odds.                                             *)

\* largest American odds, in whole points, handed to american_to_decimal_odds
MaxOdds == 300
\* the nonzero odds nearest to zero handed to it: the decimal odds of odds
\* nearer to zero are beyond the numbers the fixed point holds
MinOdds == 10

\* whole American odds, in hundredths
WholeOdds(points) == Num(points * Hundred)

AmericanOdds ==
    { WholeOdds(points) :
         points \in {0} \cup (MinOdds..MaxOdds) \cup (-MaxOdds..-MinOdds) }

\* decimal odds, scaled by DecScale, around the two tests of
\* decimal_to_american_odds
DecimalOdds ==
    { 0, DecScale \div 2, DecScale - 1, DecScale, DecScale + 1,
      2 * DecScale - 1, 2 * DecScale, 2 * DecScale + 1, 3 * DecScale }

OddsInit ==
    /\ raw \in AmericanOdds
    /\ normalized = NoOutcome
    /\ data = Absent /\ verdict = NoVerdict
    /\ model_output = JsonText("dict", LegsValue(Absent)) /\ parsed = NotCalled
    /\ table = <<>> /\ profiles = NoProfiles /\ response = NoResponse

AmericanToDecimal ==
    /\ normalized.exc = "none"
    /\ normalized' = american_to_decimal_odds(raw)
    /\ UNCHANGED <<model_output, parsed, raw, data, verdict, table, profiles,
                   response>>

DecimalToAmerican ==
    /\ verdict.exc = "none"
    /\ \E decimal_odds \in DecimalOdds \cup
                           (IF normalized.exc = "" THEN {normalized.v} ELSE {}) :
          /\ data' = Num(decimal_odds)
          /\ verdict' = decimal_to_american_odds(decimal_odds)
    /\ UNCHANGED <<model_output, parsed, raw, normalized, table, profiles,
                   response>>

OddsNext == AmericanToDecimal \/ DecimalToAmerican

SpecOdds == OddsInit /\ [][OddsNext]_vars

\* odds in hundredths to the nearest whole point
NearestPoint(x) ==
    IF x < 0 THEN -(DivRound(-x, Hundred) * Hundred)
    ELSE DivRound(x, Hundred) * Hundred

\* decimal_to_american_odds was handed what american_to_decimal_odds returned
RoundTrip ==
    /\ normalized.exc = "" /\ verdict.exc # "none"
    /\ data = Num(normalized.v)

\* the round trip gave back the odds it started from
Recovered == verdict.exc = "" /\ NearestPoint(verdict.v) = raw.n

\* each conversion fails exactly where the claim says
FailsExactly ==
    /\ normalized.exc # "none" =>
          (normalized.exc = "ValueError" <=> raw.n = 0)
    /\ normalized.exc \in {"none", "", "ValueError"}
    /\ verdict.exc # "none" =>
          (verdict.exc = "ValueError" <=> data.n <= DecScale)
    /\ verdict.exc \in {"none", "", "ValueError"}

\* C20: for all nonzero American odds o other than -100,
\* decimal_to_american_odds(american_to_decimal_odds(o)) recovers o;
\* american_to_decimal_odds fails exactly when o = 0 and
\* decimal_to_american_odds fails exactly when its argument is at most 1.0.
C20_RoundTripRecoversOdds ==
    /\ FailsExactly
    /\ (RoundTrip /\ raw # WholeOdds(-Hundred)) => Recovered

\* C20 as the code has it: the round trip recovers the odds of at least 100
\* points in absolute value other than -100; odds nearer to zero come back
\* as the odds of the other sign that pay the same.
C20_RoundTripRecoversOddsFromHundred ==
    /\ FailsExactly
    /\ (RoundTrip /\ Abs(raw.n) >= Hundred * Hundred
                  /\ raw # WholeOdds(-Hundred)) => Recovered
    /\ (RoundTrip /\ Abs(raw.n) < Hundred * Hundred) =>
          /\ verdict.exc = ""
          /\ (verdict.v > 0) = (raw.n < 0)

\* -110 went to decimal odds below 2.0 and came back
C20_Witness ==
    /\ RoundTrip /\ raw = WholeOdds(-110)
    /\ normalized.v < 2 * DecScale
    /\ Recovered

-----------------------------------------------------------------------------
(* reverse_calculate_equal_odds as a state machine: combined odds and a    *)
(* number of legs arrive, the odds of one leg are computed, and the decimal *)
(* odds of that many legs of those odds are multiplied as                  *)
(* calculate_parlay_payout multiplies them.  Here raw is the combined      *)
(* odds, data the number of legs, normalized the outcome of                *)
(* reverse_calculate_equal_odds and verdict the product.                   *)

\* largest and smallest nonzero combined odds, in whole points: the powers
\* of the decimal odds beyond them leave the numbers the fixed point holds
MaxCombined == 200
MinCombined == 50
\* largest number of legs handed to reverse_calculate_equal_odds
MaxEqualLegs == 3

CombinedOdds ==
    { WholeOdds(points) :
         points \in {0} \cup (MinCombined..MaxCombined)
                        \cup (-MaxCombined..-MinCombined) }

ReverseInit ==
    /\ raw \in CombinedOdds
    /\ data \in { Num(num_legs) : num_legs \in 0..MaxEqualLegs }
    /\ normalized = NoOutcome /\ verdict = NoVerdict
    /\ model_output = JsonText("dict", LegsValue(Absent)) /\ parsed = NotCalled
    /\ table = <<>> /\ profiles = NoProfiles /\ response = NoResponse

ReverseCalculate ==
    /\ normalized.exc = "none"
    /\ normalized' = reverse_calculate_equal_odds(raw, data.n)
    /\ UNCHANGED <<model_output, parsed, raw, data, verdict, table, profiles,
                   response>>

\* num_legs legs of the odds returned
EqualLegs(odds, num_legs) ==
    [i \in 1..num_legs |-> [EmptyLeg EXCEPT !.odds = Num(odds)]]

\* lines 124-138 of calculate_parlay_payout on those legs
MultiplyLegs ==
    /\ normalized.exc = "" /\ verdict.exc = "none"
    /\ verdict' = Ok(CombinedDecimal(EqualLegs(normalized.v, data.n), data.n))
    /\ UNCHANGED <<model_output, parsed, raw, data, normalized, table, profiles,
                   response>>

ReverseNext == ReverseCalculate \/ MultiplyLegs

SpecReverse == ReverseInit /\ [][ReverseNext]_vars

\* the rounding tolerance of a product of num_legs decimal odds carried with
\* four decimals: one unit of the fourth decimal of each factor
Tolerance(combined_decimal, num_legs) ==
    (num_legs * combined_decimal) \div DecScale + num_legs

\* C21: for every nonzero combined American odds value and every n >= 2 the
\* product of the decimal odds of n legs priced at
\* reverse_calculate_equal_odds(combined, n) is the decimal value of combined
\* within rounding tolerance; reverse_calculate_equal_odds fails when
\* combined is 0 or n < 2.
C21_EqualLegsReproduceTheCombinedOdds ==
    /\ (normalized.exc # "none" /\ (raw.n = 0 \/ data.n < 2)) =>
          normalized.exc = "ValueError"
    /\ (normalized.exc # "none" /\ raw.n # 0 /\ data.n >= 2) =>
          normalized.exc = ""
    /\ verdict.exc = "" =>
          Abs(verdict.v - american_to_decimal_odds(raw).v)
             <= Tolerance(american_to_decimal_odds(raw).v, data.n)

\* three legs of the odds computed from +150 were multiplied
C21_Witness ==
    /\ raw = WholeOdds(150) /\ data.n = 3
    /\ normalized.exc = "" /\ normalized.v < 0
    /\ verdict.exc = ""
    /\ Abs(verdict.v - american_to_decimal_odds(raw).v) <= 3 + 3

-----------------------------------------------------------------------------
(* Properties of the resolver within _normalize_parlay_bet.                 *)

\* the legs of the raw parlay grouped with leg i, when they are at least 2
Group(i) ==
    IF Cardinality(SameGame(RawLegs, i)) >= 2 THEN SameGame(RawLegs, i) ELSE {}

\* some leg of the group of leg i carries combinedOdds or sameGameParlayOdds
LegHinted(i) == Group(i) # {} /\ LegHint(RawLegs, Group(i)) # Null

\* C22: when a parlay entry has a same-teams group of at least 2 legs in which
\* some leg carries a combinedOdds or sameGameParlayOdds field, the normalised
\* parlay has reverse_calculate_equal_odds(thatValue, groupSize) as the odds
\* of every leg of the group whose odds were missing (null or 0), and the
\* odds of the other legs of the group as they were.
C22_LegHintFillsMissingOdds ==
    normalized.exc = ""
    => \A i \in 1..Len(RawLegs) :
          LegHinted(i)
          => IF MissingOdds(RawLegs[i])
             THEN OutLegs[i].odds =
                     Num(reverse_calculate_equal_odds(
                             LegHint(RawLegs, Group(i)),
                             Cardinality(Group(i))).v)
             ELSE OutLegs[i].odds = Get(RawLegs[i].odds)

\* the combined odds of the parlay entry itself
LevelHint == Or(raw.combinedOdds, Or(raw.sameGameParlayOdds, Get(raw.parlayOdds)))

\* every leg of the group of leg i carries the same odds, none missing
EchoCase(i) ==
    /\ Group(i) # {}
    /\ \A j \in Group(i) :
          ~MissingOdds(RawLegs[j]) /\ PyEq(RawLegs[j].odds, RawLegs[i].odds)

\* some leg of the group of leg i has odds, and the group is no echo
MixedGroup(i) ==
    /\ Group(i) # {} /\ ~EchoCase(i)
    /\ \E j \in Group(i) : ~MissingOdds(RawLegs[j])

\* C23: the parlay-level combined-odds hint is applied to a same-teams group
\* only when every leg of the group has missing (null or 0) odds, and the
\* resolver overwrites existing nonzero odds of a leg only in the echo case,
\* where every leg of its group carries the same nonzero odds.
C23_LevelHintOnlyForGroupsWithoutOdds ==
    normalized.exc = ""
    => \A i \in 1..Len(RawLegs) :
          /\ (~MissingOdds(RawLegs[i]) /\ OutLegs[i].odds # Get(RawLegs[i].odds))
                => EchoCase(i)
          /\ (MixedGroup(i) /\ MissingOdds(RawLegs[i]) /\ Truthy(LevelHint))
                => OutLegs[i].odds #
                      Num(reverse_calculate_equal_odds(
                              LevelHint, Cardinality(Group(i))).v)

\* the parlay-level hint priced the two legs of a group without odds, and
\* the third leg, of another game, kept its odds
C23_Witness ==
    /\ normalized.exc = "" /\ Truthy(LevelHint)
    /\ Len(RawLegs) = 3 /\ Group(1) = {1, 2} /\ Group(3) = {}
    /\ MissingOdds(RawLegs[1]) /\ MissingOdds(RawLegs[2])
    /\ OutLegs[1].odds = Num(reverse_calculate_equal_odds(LevelHint, 2).v)
    /\ OutLegs[2].odds = OutLegs[1].odds
    /\ ~MissingOdds(RawLegs[3]) /\ OutLegs[3].odds = RawLegs[3].odds

-----------------------------------------------------------------------------
(* Properties of the resolver within parse_bets_from_model_output.          *)

\* the entry is an object that declares a parlay and whose legs are objects
ParlayShaped(entry) ==
    /\ entry.shape = "dict"
    /\ entry.type.k = "str" /\ Lower(entry.type.s) = "parlay"
    /\ entry.legs.k = "list"
    /\ \A i \in 1..Len(entry.legs.items) : entry.legs.items[i].shape = "dict"

\* the legs of the entry as _normalize_parlay_bet hands them to the resolver
EntryLegs(entry) ==
    [i \in 1..Len(entry.legs.items) |-> LegCopy(entry.legs.items[i], i)]

\* the combined odds of the entry itself
EntryHint(entry) ==
    Or(entry.combinedOdds, Or(entry.sameGameParlayOdds, Get(entry.parlayOdds)))

\* the combined odds the resolver settles on for a group, Null for none
GroupValue(legs, indices, combined_odds) ==
    IF LegHint(legs, indices) # Null THEN LegHint(legs, indices)
    ELSE IF AllSameOdds(legs, indices) THEN legs[Min(indices)].odds
    ELSE IF /\ Get(combined_odds) # Null /\ ~IsZero(combined_odds)
            /\ \A j \in indices : MissingOdds(legs[j])
    THEN combined_odds
    ELSE Null

\* reverse_calculate_equal_odds fails for the group of leg i of the entry
ReverseFails(entry, i) ==
    LET legs == EntryLegs(entry)
        value == GroupValue(legs, SameGame(legs, i), EntryHint(entry))
    IN /\ Cardinality(SameGame(legs, i)) >= 2
       /\ value # Null /\ ~IsZero(value)
       /\ reverse_calculate_equal_odds(
              value, Cardinality(SameGame(legs, i))).exc # ""

\* the entries the loop of the parser goes through, their legs capped
Iterated ==
    [k \in 1..Smaller(Len(Entries), max_bets) |->
        CapLegs(Entries[k], max_legs_per_parlay)]

\* C24: if reverse_calculate_equal_odds fails for a group while an entry is
\* normalised, whatever combined odds or leg odds the model output carries,
\* the legs of that group are left as they were and
\* parse_bets_from_model_output returns normally with a record for every
\* entry: the failure does not leave the parse.
C24_ResolverFailureStaysLocal ==
    (/\ parsed.state # "none" /\ ~Malformed(model_output)
     /\ \A k \in 1..Len(Iterated) :
           Iterated[k].shape = "dict" /\
           (Iterated[k].legs.k = "list" => ParlayShaped(Iterated[k]))
     /\ \E k \in 1..Len(Iterated) :
           ParlayShaped(Iterated[k]) /\
           \E i \in 1..Len(Iterated[k].legs.items) : ReverseFails(Iterated[k], i))
    => /\ parsed.state = "returned"
       /\ Len(parsed.bets) = Len(Iterated)
       /\ \A k \in 1..Len(Iterated) :
             ParlayShaped(Iterated[k]) =>
                \A i \in 1..Len(Iterated[k].legs.items) :
                   ReverseFails(Iterated[k], i) =>
                      parsed.bets[k].legs.items[i].odds =
                         Get(Iterated[k].legs.items[i].odds)

-----------------------------------------------------------------------------
(* Properties of validate_bet on the records of the normaliser.            *)

\* a record as _normalize_single_bet or _normalize_parlay_bet builds it:
\* every key the normaliser sets is present, with whatever value the raw
\* entry carried (None for a key the entry lacked)
NormalizerBuilt(d) ==
    IF d.type = Str("single")
    THEN /\ Has(d.amount) /\ Has(d.date) /\ Has(d.sport) /\ Has(d.teams)
         /\ Has(d.betType) /\ Has(d.selection) /\ Has(d.odds)
    ELSE /\ d.type = Str("parlay") /\ Has(d.amount) /\ Has(d.date)
         /\ d.legs.k = "list"

\* C25: validate_bet is total on every record the normaliser can build:
\* whatever is null or of the wrong type in it, the call returns a pair
\* (ok, error message) and never raises.
C25_ValidateNeverRaises ==
    (Validated /\ NormalizerBuilt(raw)) => verdict.exc = ""

\* the argument of validate_bet as it was when the call was made
BeforeValidate == IF Resolved THEN normalized.bet ELSE raw

\* leg j of the argument before and after the call
LegBefore(j) == BeforeValidate.legs.items[j]
LegAfter(j) == data.legs.items[j]

-----------------------------------------------------------------------------
(* Frame of the resolver within _normalize_parlay_bet.                      *)

\* leg i as _normalize_parlay_bet hands it to the resolver
ResolverIn(i) == LegCopy(RawLegs[i], i)

\* the 'teams' value of leg i is empty or absent, or no other leg has it
Ungrouped(i) ==
    \/ Get(RawLegs[i].teams) \in {Null, Str("")}
    \/ \A j \in 1..Len(RawLegs) :
          j # i => Get(RawLegs[j].teams) # Get(RawLegs[i].teams)

\* C27: the resolver changes nothing but odds values: the legs it returns are
\* as many as it was given, in the same order, each with the id, sport,
\* teams, betType, selection and attributedTo it came with; and the odds of a
\* leg whose teams value is empty or absent, or shared with no other leg, are
\* unchanged, whether or not the parlay carries a combined-odds hint.
C27_ResolverChangesOnlyGroupedOdds ==
    normalized.exc = ""
    => /\ Len(OutLegs) = Len(RawLegs)
       /\ \A i \in 1..Len(OutLegs) :
             /\ [OutLegs[i] EXCEPT !.odds = ResolverIn(i).odds] = ResolverIn(i)
             /\ Ungrouped(i) => OutLegs[i].odds = ResolverIn(i).odds

\* a parlay with a hint whose grouped legs got odds while a leg without teams
\* and a leg alone on its game, both without odds, stayed as they were
C27_Witness ==
    /\ normalized.exc = "" /\ Truthy(raw.parlayOdds) /\ Len(RawLegs) = 3
    /\ \E i, j, k \in 1..Len(RawLegs) :
          /\ ~Ungrouped(i) /\ OutLegs[i].odds # ResolverIn(i).odds
          /\ ~Ungrouped(j) /\ j # i
          /\ Ungrouped(k) /\ MissingOdds(RawLegs[k]) /\ OutLegs[k].odds = Null

-----------------------------------------------------------------------------
(* The two deleting requests as a state machine (delete_bet and clear_week *)
(* lambda_function.py): DELETE /bets/{betId} and DELETE /bets/week/clear   *)
(* arrive from callers of every profile.                                   *)

\* auth.require_feature_flag: the PermissionError it raises, "" for none
require_feature_flag(profile, flag_name) ==
    IF check_feature_flag(profile, flag_name).v THEN "" ELSE "PermissionError"

\* delete-bet lambda_handler from line 28 on; found is the position
\* get_bet_by_id gives
delete_bet_response(user_id, profile, found) ==
    IF user_id = "" THEN WeekResponse(401, "UNAUTHORIZED", 0)
    ELSE IF require_feature_flag(profile, "canDeleteBets") # ""
    THEN WeekResponse(403, "FORBIDDEN", 0)
    ELSE IF found = 0 THEN WeekResponse(404, "BET_NOT_FOUND", 0)
    ELSE WeekResponse(200, "", 0)

\* the profiles of the callers of the deleting requests
DeleteProfiles ==
    { NoProfile,
      UserProfile("user", get_default_feature_flags("user"), {}),
      UserProfile("user", {"canCreateBets", "canDeleteBets"}, {}),
      Administrator }

DeleteInit ==
    /\ table \in WeekTables
    /\ profiles \in [Users -> DeleteProfiles]
    /\ response = NoResponse
    /\ model_output = JsonText("dict", LegsValue(Absent)) /\ parsed = NotCalled
    /\ raw = EmptyItem /\ normalized = NoOutcome
    /\ data = WeekRequest("", "", 0) /\ verdict = NoVerdict

\* DELETE /bets/{betId}
DeleteBet ==
    /\ \E user_id \in Users \cup {""}, bet_id \in 1..MaxWeekBets :
          /\ response' =
                delete_bet_response(
                    user_id,
                    IF user_id = "" THEN NoProfile ELSE profiles[user_id],
                    get_bet_by_id(table, user_id, Uuid(bet_id)))
          /\ table' = IF response'.status = 200
                      THEN delete_bet(table, user_id, Uuid(bet_id))
                      ELSE table
          /\ data' = WeekRequest("delete_bet", user_id, 0)
    /\ UNCHANGED <<model_output, parsed, raw, normalized, verdict, profiles>>

DeleteNext == DeleteBet \/ ClearWeek

SpecDelete == DeleteInit /\ [][DeleteNext]_vars

\* the profile has neither canDeleteBets nor canClearWeek
CannotDelete(profile) ==
    /\ profile.exists
    /\ "canDeleteBets" \notin profile.featureFlags
    /\ "canClearWeek" \notin profile.featureFlags

\* C28: a caller whose profile has canDeleteBets = false and canClearWeek =
\* false cannot cause a stored bet to be deleted: every delete-bet request
\* and every clear-week request of such a caller is rejected and leaves the
\* stored bets unchanged.
C28_NoDeleteWithoutTheFlags ==
    [][(/\ data'.request \in {"delete_bet", "clear_week"}
        /\ data'.user_id # ""
        /\ CannotDelete(profiles[data'.user_id]))
       => (response'.status # 200 /\ table' = table)]_vars

-----------------------------------------------------------------------------
(* The profile requests as a state machine (get_user_profile and           *)
(* update_user_profile lambda_function.py): GET /users/profile and PUT     *)
(* /users/profile arrive from callers of every profile; the get_item of a  *)
(* request answers or fails with the ClientError get_user_profile catches  *)
(* or with another error.                                                  *)

\* what a get_item on the users table meets
Lookups == {"Item", "ClientError", "BotoCoreError"}

\* the stored profile as the lookup of one request meets it
Met(profile, lookup) == [profile EXCEPT !.lookup = lookup]

\* user_service.get_or_create_user_profile: the profile the table holds
\* after it, or the exception of the lookup
get_or_create_user_profile(profile) ==
    IF get_user_profile(profile).exc # ""
    THEN [exc |-> get_user_profile(profile).exc, profile |-> profile]
    ELSE IF get_user_profile(profile).v.exists
    THEN [exc |-> "", profile |-> profile]
    ELSE [exc |-> "", profile |-> create_user_profile("user")]

\* get-user-profile lambda_handler from line 28 on
get_user_profile_response(user_id, created) ==
    IF user_id = "" THEN Response(401, "UNAUTHORIZED")
    ELSE IF created.exc # "" THEN Response(500, "INTERNAL_ERROR")
    ELSE Response(200, "")

ProfileInit ==
    /\ profiles \in [Users -> ProfilePool]
    /\ table = <<>>
    /\ response = NoResponse
    /\ model_output = JsonText("dict", LegsValue(Absent)) /\ parsed = NotCalled
    /\ raw = EmptyItem /\ normalized = NoOutcome
    /\ data = WeekRequest("", "", 0) /\ verdict = NoVerdict

\* GET /users/profile
GetUserProfile ==
    /\ \E user_id \in Users \cup {""}, lookup \in Lookups :
          LET created ==
                  IF user_id = "" THEN [exc |-> "", profile |-> NoProfile]
                  ELSE get_or_create_user_profile(Met(profiles[user_id], lookup))
          IN /\ response' = get_user_profile_response(user_id, created)
             /\ profiles' =
                   IF response'.status = 200
                   THEN [profiles EXCEPT ![user_id] = Met(created.profile, "Item")]
                   ELSE profiles
             /\ data' = WeekRequest("get_user_profile", user_id, 0)
    /\ UNCHANGED <<model_output, parsed, raw, normalized, verdict, table>>

\* PUT /users/profile from a signed-in caller, for any user
PutUserProfile ==
    /\ \E user_id \in Users, target_user_id \in Users, body \in ProfileBodies,
          lookup \in {"Item", "ClientError"} :
          /\ response' = update_user_profile_response(
                             Met(profiles[user_id], lookup),
                             profiles[target_user_id], body)
          /\ profiles' =
                IF response'.status = 200
                THEN [profiles EXCEPT ![target_user_id] =
                         update_user_profile(TargetProfile(@, body), body)]
                ELSE profiles
          /\ data' = WeekRequest("update_user_profile", user_id, 0)
    /\ UNCHANGED <<model_output, parsed, raw, normalized, verdict, table>>

ProfileNext == GetUserProfile \/ PutUserProfile

SpecProfile == ProfileInit /\ [][ProfileNext]_vars

\* the stored profile is not that of an administrator
NonAdmin(profile) == ~(profile.exists /\ profile.role = "admin")

\* the role, the feature flags and the aliases of the two profiles agree
SameRights(p, q) ==
    /\ p.role = q.role
    /\ p.featureFlags = q.featureFlags
    /\ p.aliases = q.aliases

\* C29: no profile request of a caller who is not an administrator changes
\* the role, featureFlags or aliases of a stored profile, the caller's own
\* included: a profile created by the caller's first read has role user and
\* the default flags of that role, and an update-profile request of such a
\* caller is rejected with no profile created or modified.
C29_NonAdminsChangeNoProfile ==
    [][(/\ data'.request \in {"get_user_profile", "update_user_profile"}
        /\ data'.user_id # ""
        /\ NonAdmin(profiles[data'.user_id]))
       => /\ \A u \in Users :
                profiles[u].exists
                => profiles'[u].exists /\ SameRights(profiles'[u], profiles[u])
          /\ \A u \in Users :
                (~profiles[u].exists /\ profiles'[u].exists)
                => /\ data'.request = "get_user_profile" /\ u = data'.user_id
                   /\ SameRights(profiles'[u], create_user_profile("user"))
          /\ data'.request = "update_user_profile"
             => (response'.status # 200 /\ profiles' = profiles)]_vars

-----------------------------------------------------------------------------
(* Index keys of the stored bets (dynamodb.py create_bet, update_bet).      *)

\* C30: after any sequence of create and update operations every stored
\* bet's index keys agree with its fields: GSI1PK is 'STATUS#' followed by
\* the bet's status, GSI1SK is 'DATE#' followed by the bet's date, and the
\* key fields betId, userId and createdAt are those assigned at creation.
C30_IndexKeysAgreeWithFields ==
    \A i \in 1..Len(table) :
       /\ table[i].GSI1PK = KeyText("STATUS#", table[i].status)
       /\ table[i].GSI1SK = KeyText("DATE#", table[i].date)
       /\ table[i].createdAt = CreatedAt
       /\ table[i].userId \in {Str(u) : u \in Users}
       /\ table[i].betId \in {Uuid(serial) : serial \in 1..MaxWeekBets}

====
